---------------------------- MODULE Spec2Model ----------------------------
(***************************************************************************)
(* Verification model of the ai-telemetry template.                        *)
(*                                                                         *)
(* Part I  (specification Spec): the trace graph of src/trace/manager.ts   *)
(*   and the span module (Span, Generation, in src/trace/types.ts) with    *)
(*   the TokenUsageTracker of src/token/usage.ts.  One Trace object, its   *)
(*   child spans/generations, and the asynchronous Trace.end split at its  *)
(*   two await points.                                                     *)
(*                                                                         *)
(* Part II (specification SpecStream): the streaming wrappers              *)
(*   streamTextWithTelemetry / streamObjectWithTelemetry of                *)
(*   src/ai/telemetry-wrappers.ts with createTokenCountingTransform and    *)
(*   createAccumulatingTransform of src/ai/stream-utils.ts, and the        *)
(*   tee-based variant whose monitoring is set up by                       *)
(*   setupBackgroundTelemetryUpdates.  One wrapper call, its source        *)
(*   stream, the monitoring timer and one consumer.                        *)
(***************************************************************************)
EXTENDS Integers, Sequences, FiniteSets, TLC

\* ------------------------------------------------------------------ bounds
MaxSpans == 1          \* children started under the trace, in Spec
MaxEndCalls == 2       \* Trace.end invocations issued by callers, in Spec
MaxKids == 2           \* children started under the trace, in SpecChildren
MaxUsage == 2          \* usage records folded into the trace's tracker
MaxChunks == 2         \* chunks the source stream emits, in SpecStream
MaxTicks == 2          \* firings of the monitoring interval, in SpecStream
MaxManagers == 2       \* TraceManager objects constructed, in SpecManager
MaxHandles == 2        \* span/generation ids handed out, in SpecManager
MaxUpdates == 2        \* backend generation updates sent, in SpecManager
MaxFinish == 2         \* finishTrace calls, in SpecManager
MaxBudget == 40        \* contextSize of a trimPrompt call, in SpecTrim
MaxWords == 2          \* pieces of a model name, in SpecFamily
MaxTraces == 3         \* traces created through one trace/manager TraceManager
MaxWrites == 3         \* chunks written to one accumulating transform
MaxCalls == 3          \* countTokens calls between two clearEncoderCache calls

\* ------------------------------------------------------------ value domains
\* TraceStatus and SpanStatus (src/trace/types.ts:13, :18).
TraceStatus == {"pending", "running", "completed", "failed"}
SpanStatus == {"pending", "running", "success", "error", "cancelled"}

\* Model names given to startGeneration.
GenModels == {"m1"}

\* TokenUsage records (src/token/usage.ts:12-23); the first is the record of
\* the documented scenario {prompt:10, completion:5, total:15}.
Usages ==
  { [promptTokens |-> 10, completionTokens |-> 5, totalTokens |-> 15, model |-> "m1"],
    [promptTokens |-> 1, completionTokens |-> 1, totalTokens |-> 2, model |-> "m2"] }

\* An optional value is a sequence of length at most one.
None == << >>
Some(v) == << v >>

\* Object spread {...a, ...b}: keys of b win.  Objects are functions from a
\* set of key strings.
Merge(a, b) ==
  [x \in (DOMAIN a) \cup (DOMAIN b) |-> IF x \in DOMAIN b THEN b[x] ELSE a[x]]

EmptyObj == [x \in {} |-> 0]

\* {...a, key: v}
Put(a, key, v) == Merge(a, [x \in {key} |-> v])

\* isEmptyObject (utils): no own keys.
isEmptyObject(obj) == DOMAIN obj = {}

VARIABLES
  scope,          \* the scenario: how many children and end calls callers make
  now,            \* the wall clock read by getCurrentTimestamp (0 = "unset")
  status,         \* Trace.status
  endTime,        \* Trace.endTime, 0 while undefined
  metadata,       \* Trace.metadata
  tags,           \* Trace.tags (as a set: addTags de-duplicates)
  spans,          \* Trace.spans, in insertion order; a span's id is its index
  usageHistory,   \* TokenUsageTracker.usageHistory
  modelTotals,    \* TokenUsageTracker.modelTotals
  threw,          \* whether the latest startSpan/startGeneration call threw
  endPc,          \* per Trace.end call: where the async function stands
  endInfo,        \* per suspended Trace.end call: its TraceEndInfo argument
  flushCount,     \* number of flushCallback invocations so far
  endIgnored      \* whether the latest Span.end call returned at its guard

VARIABLES
  variant,        \* which wrapper is called: "wrapText", "wrapObject", "tee"
  telemetry,      \* the module-level telemetry object (isEnabled, langfuse)
  parentSpanId,   \* whether the caller passed a parentSpanId
  wpc,            \* the wrapper call: "init", "returned" or "threw"
  generation,     \* whether the wrapper holds a generation id
  source,         \* the chunks the source stream delivers, in order
  srcEnd,         \* how the source ends after them: "complete" or "error"
  srcPos,         \* number of chunks the source has delivered so far
  srcOver,        \* whether the source has completed or errored
  pump,           \* the reader loop behind the source: "running", "stopped"
  outQ,           \* queue of the stream handed to the consumer
  outState,       \* its state: "readable", "closed", "errored", "cancelled"
  outErr,         \* the error it holds: "none", "source", "instrumentation"
  consumed,       \* the chunks the consumer has read, in order
  consumerEnd,    \* "reading", "done", "srcError", "instrError", "cancelled"
  timerActive,    \* whether the monitoring interval is set
  ticks,          \* firings of the interval callback so far
  progressCalls,  \* updateTraceMetadata({streamingProgress}) calls issued
  uncaught,       \* whether an interval callback threw
  endGenCalls,    \* the endGeneration calls issued, in order
  textState       \* result.text / result.object: "pending" or how it was handled

streamVars == << variant, telemetry, parentSpanId, wpc, generation, source,
                 srcEnd, srcPos, srcOver, pump, outQ, outState, outErr,
                 consumed, consumerEnd, timerActive, ticks, progressCalls,
                 uncaught, endGenCalls, textState >>

traceVars == << scope, now, status, endTime, metadata, tags, spans,
                usageHistory, modelTotals, threw, endPc, endInfo, flushCount,
                endIgnored >>

VARIABLES
  gKind,          \* which generate wrapper is called: "text" or "object"
  gPrompt,        \* the prompt text of the call
  gpc,            \* the call: "init", "awaiting", "returned" or "threw"
  gGeneration,    \* whether the wrapper holds a generation id
  gModel,         \* generateText / generateObject: "notInvoked", "running",
                  \* "returned" or "threw"
  gOutcome,       \* what the caller got: "pending", "result", "modelError",
                  \* "telemetryError"
  gCalls,         \* the endGeneration calls the wrapper issued, in order
  gLogged         \* telemetry failures written to the console

genVars == << gKind, gPrompt, gpc, gGeneration, gModel, gOutcome,
              gCalls, gLogged >>

VARIABLES
  activeTraces,   \* module-level activeTraces (its keys)
  modSpans,       \* module-level activeSpans (its keys)
  modGenerations, \* module-level activeGenerations (its keys)
  managers,       \* the TraceManager objects constructed, in order
  handles,        \* the ids startSpan/startGeneration returned; an id is its
                  \* index, with its kind, its manager and whether an end
                  \* call or finishTrace has closed it since
  backend,        \* what was sent to the Langfuse client, per kind of call
  warnings        \* logger.warn calls of the TraceManager constructor

mgrVars == << activeTraces, modSpans, modGenerations, managers, handles,
              backend, warnings >>

\* ---- one trimPrompt call (src/ai/tokenizer.ts)
VARIABLES
  tIn,            \* the prompt: its length in characters, the width of its
                  \* tokens and the positions of its semantic boundaries
  tBudget,        \* contextSize
  tOut,           \* the returned text, a prefix of the prompt, by its length
  tStack          \* the prompts of the nested trimPrompt invocations, by
                  \* their lengths, the outermost first

trimVars == << tIn, tBudget, tOut, tStack >>

\* ---- one call of a pure function (detectModelFamily, deepMerge)
VARIABLES
  call,           \* the function called and its arguments, None before
  ret             \* the value returned, None before

pureVars == << call, ret >>

\* ---- the encoder cache of src/ai/tokenizer.ts
VARIABLES
  encoderCache,   \* the encoding schemes that have a cached encoder
  tokLog          \* the countTokens calls since the cache was last empty by
                  \* construction or by clearEncoderCache: family, text,
                  \* outcome, and whether getEncoding was called

tokVars == << encoderCache, tokLog >>

\* ---- one createAccumulatingTransform() of src/ai/stream-utils.ts
VARIABLES
  accumulator,    \* the closure's `accumulator`, by the name of the function
                  \* it holds
  accumulated,    \* the closure's `accumulated`
  enqueued        \* the chunks passed to controller.enqueue, in order

accVars == << accumulator, accumulated, enqueued >>

\* ---- the progress snapshots of one stream
VARIABLES
  reportTimes     \* the times, in ms since setInterval, at which the interval
                  \* callback called updateTraceMetadata({streamingProgress})

progVars == << reportTimes >>

\* ---- the TraceManager of src/trace/manager.ts
VARIABLES
  tmTraces,       \* the Trace objects createTrace made, in order: whether each
                  \* has an end time and whether its flush was attempted
  tmRegistry,     \* the keys of this.traces (positions in tmTraces)
  tmShutdown      \* the shutdown call: "idle", "looping" (suspended at an
                  \* await of its loop) or "done", with the traces its
                  \* snapshot still has to end

regVars == << tmTraces, tmRegistry, tmShutdown >>

\* The state of the parts after Part II, which Parts I and II leave alone.
\* The state of Parts VI and later.
extraVars == << pureVars, tokVars, accVars, progVars, regVars >>

laterVars == << genVars, mgrVars, trimVars, extraVars >>

vars == << traceVars, streamVars, laterVars >>

\* The construction time of the trace, and the clock readings told apart:
\* the instant of construction and a later one.  Timestamps are only copied,
\* tested for presence and subtracted.
startTime == 1
Instants == {startTime, startTime + 1}

\* No generate wrapper call is part of the scenario.
GenIdle ==
  /\ gKind = "text"
  /\ gPrompt = << >>
  /\ gpc = "idle"
  /\ gGeneration = FALSE
  /\ gModel = "notInvoked"
  /\ gOutcome = "pending"
  /\ gCalls = << >>
  /\ gLogged = 0

\* Nothing sent to the backend yet.
NoBackend ==
  [traces |-> << >>, spans |-> {}, spanUpdates |-> << >>,
   generations |-> {}, generationUpdates |-> << >>,
   traceIncrements |-> << >>, traceFinishes |-> << >>, flushes |-> 0]

\* No TraceManager of src/ai/telemetry.ts is part of the scenario.
MgrIdle ==
  /\ activeTraces = {}
  /\ modSpans = {}
  /\ modGenerations = {}
  /\ managers = << >>
  /\ handles = << >>
  /\ backend = NoBackend
  /\ warnings = 0

\* trimPrompt has not been called.
TrimIdle ==
  /\ tIn = [len |-> 0, width |-> 1, bounds |-> {}]
  /\ tBudget = 0
  /\ tOut = None
  /\ tStack = << >>

\* No pure function has been called.
PureIdle == call = None /\ ret = None

\* No token has been counted.
TokIdle == encoderCache = {} /\ tokLog = << >>

\* null
Null == [kind |-> "null", num |-> 0, items |-> << >>, fields |-> EmptyObj]

\* The closure of createAccumulatingTransform as created (lines 19-20): the
\* accumulator is the arrow function that returns the chunk.
AccIdle ==
  /\ accumulator = "initial"
  /\ accumulated = Null
  /\ enqueued = << >>

\* No progress snapshot has been sent.
ProgIdle == reportTimes = << >>

\* new TraceManager(logger, flushCallback): no trace yet.
RegIdle ==
  /\ tmTraces = << >>
  /\ tmRegistry = {}
  /\ tmShutdown = [pc |-> "idle", todo |-> << >>]

\* Parts VI and later are not in use.
ExtraIdle == PureIdle /\ TokIdle /\ AccIdle /\ ProgIdle /\ RegIdle

LaterIdle == GenIdle /\ MgrIdle /\ TrimIdle /\ ExtraIdle

\* No streaming wrapper call is part of the scenario.
StreamRestIdle ==
  /\ variant = "wrapText"
  /\ parentSpanId = FALSE
  /\ wpc = "idle"
  /\ generation = FALSE
  /\ source = << >>
  /\ srcEnd = "complete"
  /\ srcPos = 0
  /\ srcOver = FALSE
  /\ pump = "stopped"
  /\ outQ = << >>
  /\ outState = "readable"
  /\ outErr = "none"
  /\ consumed = << >>
  /\ consumerEnd = "reading"
  /\ timerActive = FALSE
  /\ ticks = 0
  /\ progressCalls = 0
  /\ uncaught = FALSE
  /\ endGenCalls = << >>
  /\ textState = "pending"

\* The streaming state at rest, telemetry not configured.
StreamIdle ==
  /\ telemetry = [isEnabled |-> FALSE, langfuse |-> FALSE]
  /\ StreamRestIdle

\* ------------------------------------------------------ TokenUsageTracker
\* The model field of a record that carries none (undefined).
NoModel == ""

\* const model = usage.model || 'unknown'
modelKeyAsGiven(usage) == usage.model
modelKey(usage) == IF usage.model = NoModel THEN "unknown" ELSE usage.model

ZeroUsage(m) ==
  [promptTokens |-> 0, completionTokens |-> 0, totalTokens |-> 0, model |-> m]

\* TokenUsageTracker.addUsage on the per-model totals: creates the model's
\* entry on first use, then adds the record field-wise.
addUsageTotals(totals, usage) ==
  LET m == modelKey(usage)
      old == IF m \in DOMAIN totals THEN totals[m] ELSE ZeroUsage(m)
  IN Put(totals, m,
         [promptTokens |-> old.promptTokens + usage.promptTokens,
          completionTokens |-> old.completionTokens + usage.completionTokens,
          totalTokens |-> old.totalTokens + usage.totalTokens,
          model |-> m])

RECURSIVE SumTotalTokens(_, _)
\* The totalTokens field of the reduce() in getTotalUsage, over the models S.
SumTotalTokens(totals, S) ==
  IF S = {} THEN 0
  ELSE LET m == CHOOSE x \in S : TRUE
       IN totals[m].totalTokens + SumTotalTokens(totals, S \ {m})

\* TokenUsageTracker.getTotalUsage().totalTokens
getTotalUsage(totals) == SumTotalTokens(totals, DOMAIN totals)

\* ------------------------------------------------------- Span / Generation
\* SpanResult arguments handed to Span.end by callers: one per branch of
\* Span.end (output present or not, error a string or absent, metadata).
SpanResults ==
  { [status |-> "success", output |-> Some("o1"), error |-> None,
     metadata |-> EmptyObj],
    [status |-> "error", output |-> None, error |-> Some("boom"),
     metadata |-> [x \in {"note"} |-> "n1"]] }

\* GenerationResult arguments handed to Generation.complete.
GenerationResults ==
  { [output |-> "g1", usage |-> Some(u), metadata |-> EmptyObj] : u \in Usages }

\* new Span(traceId, options): status 'running', no end time, the caller's
\* metadata (none here).  A span's own start time is written once and read by
\* no operation; it is left out of the record.
NewSpan ==
  [kind |-> "span", model |-> "", endTime |-> 0, status |-> "running",
   metadata |-> EmptyObj,
   output |-> None, usage |-> None]

\* new Generation(traceId, options): a Span whose metadata also carries the
\* model and generationType.
NewGeneration(model) ==
  [kind |-> "generation", model |-> model, endTime |-> 0, status |-> "running",
   metadata |-> Put(Put(EmptyObj, "model", model), "generationType", "llm"),
   output |-> None, usage |-> None]

\* The body of Span.end(result) past its guard, at clock reading t: end time,
\* status, merged metadata, wrapped error, output.
SpanEndOverwrites(sp, result, t) ==
  LET m1 == Put(Merge(sp.metadata, result.metadata), "endTime", t)
      m2 == IF result.error # None
              THEN Put(m1, "error", [message |-> result.error[1]])
              ELSE m1
      m3 == IF result.output # None THEN Put(m2, "output", result.output[1])
              ELSE m2
  IN [sp EXCEPT !.endTime = t, !.status = result.status, !.metadata = m3]

\* Span.end without its guard: every call overwrites.
SpanEndUnguarded(sp, result, t) == SpanEndOverwrites(sp, result, t)

\* Span.end(result): a no-op on a span that already has an end time.
SpanEnd(sp, result, t) ==
  IF sp.endTime # 0 THEN sp
  ELSE SpanEndOverwrites(sp, result, t)

\* Generation.complete(result): sets output and usage, then ends the span
\* with status 'success'.
GenerationComplete(sp, result, t) ==
  SpanEnd([sp EXCEPT !.output = Some(result.output), !.usage = result.usage],
          [status |-> "success", output |-> Some(result.output), error |-> None,
           metadata |-> Put(result.metadata, "usage", result.usage)],
          t)

\* ----------------------------------------------------------- Trace: state
\* TraceEndInfo arguments handed to Trace.end: the two terminal statuses; the
\* metadata is the one TraceManager.shutdown passes.
EndStatuses == {"completed", "failed"}

TraceEndInfos ==
  { [status |-> st, metadata |-> [x \in {"reason"} |-> "shutdown"]] :
      st \in EndStatuses }

\* Arguments handed to Trace.updateMetadata (a Record<string, any>): the
\* empty object, a plain key with two values, the reserved tokenUsage key,
\* and an update that carries tokenUsage together with a totalTokens key.
MetadataUpdates ==
  { EmptyObj, [x \in {"k"} |-> "a"], [x \in {"k"} |-> "b"] }
  \cup { [x \in {"tokenUsage"} |-> u] : u \in Usages }
  \cup { [tokenUsage |-> u, totalTokens |-> 7] : u \in Usages }

TagInputs == { {}, {"t1"} }

\* The scenario of the parts that use no Trace.
NoScope == [children |-> 0, endCalls |-> 0, flushRejects |-> FALSE]

\* State after `new Trace(options, logger, flushCallback)`, as TraceManager
\* constructs it with telemetry enabled: a flushCallback is present.
InitTrace ==
  /\ now = startTime
  /\ status = "pending"
  /\ endTime = 0
  /\ metadata = [x \in {"startTime"} |-> startTime]
  /\ tags = {}
  /\ spans = << >>
  /\ usageHistory = << >>
  /\ modelTotals = EmptyObj
  /\ threw = FALSE
  /\ endPc = [c \in 1..scope.endCalls |-> "idle"]
  /\ endInfo = [c \in 1..scope.endCalls |-> None]
  /\ flushCount = 0
  /\ endIgnored = FALSE

\* Time passes between two operations.
AdvanceClock ==
  /\ now + 1 \in Instants
  /\ now' = now + 1
  /\ UNCHANGED streamVars
  /\ UNCHANGED laterVars
  /\ UNCHANGED << scope, status, endTime, metadata, tags, spans, usageHistory,
                  modelTotals, threw, endPc, endInfo, flushCount,
                  endIgnored >>

\* ------------------------------------------------------ Trace: operations
\* startSpan/startGeneration without the ended-trace check.
StartChildUnchecked(child) ==
  /\ threw' = FALSE
  /\ status' = IF status = "pending" THEN "running" ELSE status
  /\ spans' = Append(spans, child)

\* The shared body of startSpan and startGeneration with the child to add.
StartChild(child) ==
  IF endTime # 0
    THEN /\ threw' = TRUE
         /\ UNCHANGED << status, spans >>
    ELSE /\ threw' = FALSE
         /\ status' = IF status = "pending" THEN "running" ELSE status
         /\ spans' = Append(spans, child)

\* Trace.startSpan(options)
startSpan ==
  /\ Len(spans) < scope.children \/ endTime # 0
  /\ StartChild(NewSpan)
  /\ UNCHANGED streamVars
  /\ UNCHANGED laterVars
  /\ UNCHANGED << scope, now, endTime, metadata, tags, usageHistory, modelTotals,
                  endPc, endInfo, flushCount, endIgnored >>

\* Trace.startGeneration(options)
startGeneration ==
  /\ Len(spans) < scope.children \/ endTime # 0
  /\ \E m \in GenModels : StartChild(NewGeneration(m))
  /\ UNCHANGED streamVars
  /\ UNCHANGED laterVars
  /\ UNCHANGED << scope, now, endTime, metadata, tags, usageHistory, modelTotals,
                  endPc, endInfo, flushCount, endIgnored >>

\* span.end(result) called by the holder of a span or generation handle.
endSpan ==
  /\ \E i \in 1..Len(spans), r \in SpanResults :
       /\ spans' = [spans EXCEPT ![i] = SpanEnd(spans[i], r, now)]
       /\ endIgnored' = (spans[i].endTime # 0)
  /\ UNCHANGED streamVars
  /\ UNCHANGED laterVars
  /\ UNCHANGED << scope, now, status, endTime, metadata, tags, usageHistory,
                  modelTotals, threw, endPc, endInfo, flushCount >>

\* generation.complete(result) called by the holder of a generation handle.
completeGeneration ==
  /\ \E i \in 1..Len(spans), r \in GenerationResults :
       /\ spans[i].kind = "generation"
       /\ spans' = [spans EXCEPT ![i] = GenerationComplete(spans[i], r, now)]
       /\ endIgnored' = (spans[i].endTime # 0)
  /\ UNCHANGED streamVars
  /\ UNCHANGED laterVars
  /\ UNCHANGED << scope, now, status, endTime, metadata, tags, usageHistory,
                  modelTotals, threw, endPc, endInfo, flushCount >>

\* Trace.updateMetadata(md)
updateMetadataTo(md) ==
  LET hasUsage == "tokenUsage" \in DOMAIN md
      totals1 == IF hasUsage THEN addUsageTotals(modelTotals, md["tokenUsage"])
                 ELSE modelTotals
      meta1 == IF hasUsage THEN Put(metadata, "totalTokens", getTotalUsage(totals1))
               ELSE metadata
  IN /\ usageHistory' = IF hasUsage THEN Append(usageHistory, md["tokenUsage"])
                        ELSE usageHistory
     /\ modelTotals' = totals1
     /\ metadata' = Put(Merge(meta1, md), "updatedAt", now)

updateMetadata ==
  /\ \E md \in MetadataUpdates :
       /\ "tokenUsage" \in DOMAIN md => Len(usageHistory) < MaxUsage
       /\ IF isEmptyObject(md)
            THEN UNCHANGED << usageHistory, modelTotals, metadata >>
            ELSE updateMetadataTo(md)
  /\ UNCHANGED streamVars
  /\ UNCHANGED laterVars
  /\ UNCHANGED << scope, now, status, endTime, tags, spans, threw, endPc, endInfo,
                  flushCount, endIgnored >>

\* Trace.addTags(tags)
addTags ==
  /\ \E ts \in TagInputs :
       tags' = IF ts = {} THEN tags ELSE tags \cup ts
  /\ UNCHANGED streamVars
  /\ UNCHANGED laterVars
  /\ UNCHANGED << scope, now, status, endTime, metadata, spans, usageHistory,
                  modelTotals, threw, endPc, endInfo, flushCount,
                  endIgnored >>

\* Trace.recordTokenUsage(usage)
recordTokenUsage ==
  /\ Len(usageHistory) < MaxUsage
  /\ \E u \in Usages :
       /\ usageHistory' = Append(usageHistory, u)
       /\ modelTotals' = addUsageTotals(modelTotals, u)
       /\ metadata' = Put(metadata, "totalTokens",
                          getTotalUsage(addUsageTotals(modelTotals, u)))
  /\ UNCHANGED streamVars
  /\ UNCHANGED laterVars
  /\ UNCHANGED << scope, now, status, endTime, tags, spans, threw, endPc, endInfo,
                  flushCount, endIgnored >>

\* ----------------------------------------------------------- Trace.end
\* The argument closeOpenSpans passes to span.end.
TraceEnded ==
  [status |-> "cancelled", output |-> None, error |-> None,
   metadata |-> [x \in {"reason"} |-> "trace_ended"]]

\* closeOpenSpans without its filter, overwriting whatever it finds.
closeEverySpan(ss, t) ==
  [i \in 1..Len(ss) |-> SpanEndOverwrites(ss[i], TraceEnded, t)]

\* Trace.closeOpenSpans(): every span without an end time is ended as
\* cancelled; the others are not touched.
closeOpenSpans(ss, t) ==
  [i \in 1..Len(ss) |->
     IF ss[i].endTime = 0 THEN SpanEnd(ss[i], TraceEnded, t) ELSE ss[i]]

\* The per-model summary the trace metadata refers to: getModelTotals() is a
\* shallow copy, so the summary keeps the keys it was taken with and shares
\* the per-model records with the tracker.
tokenUsageSummary(meta, totals) ==
  [m \in meta["tokenUsageSummary"] |-> totals[m]]

\* Trace.end with a guard that never fires.
neverEnded == FALSE

\* Whether Trace.end returns at its guard: the trace already has an end time.
alreadyEnded == endTime # 0

\* Trace.end(info), synchronous part: the guard and, past it, the body of
\* closeOpenSpans; the function then suspends at `await closeOpenSpans()`.
\* Calls are numbered in the order they are made.
EndBegin(c) ==
  /\ endPc[c] = "idle"
  /\ c > 1 => endPc[c - 1] # "idle"
  /\ \E info \in TraceEndInfos :
       IF alreadyEnded
         THEN /\ endPc' = [endPc EXCEPT ![c] = "ignored"]
              /\ UNCHANGED << spans, endInfo >>
         ELSE /\ spans' = closeOpenSpans(spans, now)
              /\ endInfo' = [endInfo EXCEPT ![c] = Some(info)]
              /\ endPc' = [endPc EXCEPT ![c] = "closed"]
  /\ UNCHANGED streamVars
  /\ UNCHANGED laterVars
  /\ UNCHANGED << scope, now, status, endTime, metadata, tags, usageHistory,
                  modelTotals, threw, flushCount, endIgnored >>

\* The metadata Trace.end leaves at clock reading t for the argument info.
EndMetadata(info, t) ==
  LET m1 == Put(Put(Merge(metadata, info.metadata), "endTime", t),
                "tokenUsageSummary", DOMAIN modelTotals)
      durationMs == t - startTime
  IN Put(Put(m1, "duration", durationMs),
         "durationSeconds", (durationMs + 500) \div 1000)

\* Trace.end(info), resumed after `await closeOpenSpans()`: end time, status,
\* metadata, and the flushCallback invocation when there is a callback.
EndFinalize(c) ==
  /\ endPc[c] = "closed"
  /\ endTime' = now
  /\ status' = endInfo[c][1].status
  /\ metadata' = EndMetadata(endInfo[c][1], now)
  /\ flushCount' = flushCount + 1
  /\ endPc' = [endPc EXCEPT ![c] = "flushing"]
  /\ endInfo' = [endInfo EXCEPT ![c] = None]
  /\ UNCHANGED streamVars
  /\ UNCHANGED laterVars
  /\ UNCHANGED << scope, now, tags, spans, usageHistory, modelTotals, threw,
                  endIgnored >>

\* The try/catch around `await this.flushCallback(this)`.
flushRejectionEscapes == FALSE
flushRejectionCaught == TRUE

\* Trace.end(info), resumed after `await flushCallback(this)`: a rejection is
\* caught and logged, so the call returns the same way whether the flush
\* resolved or rejected.
EndFlushDone(c) ==
  /\ endPc[c] = "flushing"
  /\ endPc' = [endPc EXCEPT
                 ![c] = IF scope.flushRejects /\ ~flushRejectionCaught
                          THEN "rejected" ELSE "done"]
  /\ UNCHANGED streamVars
  /\ UNCHANGED laterVars
  /\ UNCHANGED << scope, now, status, endTime, metadata, tags, spans, usageHistory,
                  modelTotals, threw, endInfo, flushCount, endIgnored >>

end == \E c \in DOMAIN endPc : EndBegin(c) \/ EndFinalize(c) \/ EndFlushDone(c)

Next ==
  \/ AdvanceClock
  \/ startSpan
  \/ startGeneration
  \/ endSpan
  \/ completeGeneration
  \/ end

\* Spec: one child, racing Trace.end calls.
Init ==
  /\ scope = [children |-> MaxSpans, endCalls |-> MaxEndCalls,
              flushRejects |-> FALSE]
  /\ InitTrace
  /\ StreamIdle
  /\ LaterIdle

Spec == Init /\ [][Next]_vars

\* SpecChildren: several children, Trace.end called once.
InitChildren ==
  /\ scope = [children |-> MaxKids, endCalls |-> 1, flushRejects |-> FALSE]
  /\ InitTrace
  /\ StreamIdle
  /\ LaterIdle

SpecChildren == InitChildren /\ [][Next]_vars

\* SpecFlush: a trace without children whose flush callback resolves or
\* rejects; Trace.end is called repeatedly.
NextFlush == AdvanceClock \/ end

InitFlush ==
  /\ \E rejects \in BOOLEAN :
       scope = [children |-> 0, endCalls |-> MaxEndCalls,
                flushRejects |-> rejects]
  /\ InitTrace
  /\ StreamIdle
  /\ LaterIdle

SpecFlush == InitFlush /\ [][NextFlush]_vars

\* A trace whose callers update its metadata, tags and token usage.
NextMetadata == AdvanceClock \/ updateMetadata \/ addTags \/ recordTokenUsage

InitMetadata ==
  /\ scope = NoScope
  /\ InitTrace
  /\ StreamIdle
  /\ LaterIdle

SpecMetadata == InitMetadata /\ [][NextMetadata]_vars

\* A trace that is ended once while its callers keep updating its metadata,
\* tags and token usage.
NextFrozen ==
  AdvanceClock \/ end \/ updateMetadata \/ addTags \/ recordTokenUsage

InitFrozen ==
  /\ scope = [children |-> 0, endCalls |-> 1, flushRejects |-> FALSE]
  /\ InitTrace
  /\ StreamIdle
  /\ LaterIdle

SpecFrozen == InitFrozen /\ [][NextFrozen]_vars


\* ================================================================ Part II
\* ------------------------------------------------------------- tokenizer
\* A text is the sequence of the pieces it was concatenated from; a piece is
\* one token of the encoding, or the literal text of one of its special
\* tokens.
SpecialToken == "<|endoftext|>"
Chunks == {"a", SpecialToken}

\* encoder.encode(text) as countTokens calls it, with no special token
\* allowed: it throws on a text that contains the literal of one.
encodeThrows(text) == \E i \in 1..Len(text) : text[i] = SpecialToken

\* countTokens(text) / countTokensForModel(text, model) where encode returns:
\* every model family maps to the same encoding.
countTokens(text) == IF text = << >> THEN 0 ELSE Len(text)

\* The prompt of the wrapper call and its token count, taken before the
\* wrapper's try block.
promptText == << "p", "q" >>
promptTokenCount == countTokens(promptText)

\* ------------------------------------------------------- wrapper: helpers
\* initializeTelemetry(): both fields set together.
initializeTelemetry(enabled) == [isEnabled |-> enabled, langfuse |-> enabled]

Variants == {"wrapText", "wrapObject", "tee"}

RECURSIVE SeqsUpTo(_, _)
\* The sequences over S of length at most n.
SeqsUpTo(S, n) ==
  IF n = 0 THEN { << >> }
  ELSE LET shorter == SeqsUpTo(S, n - 1)
       IN shorter \cup { Append(q, x) : q \in shorter, x \in S }

\* The tee-based variant attaches its monitor (tee, background reader and
\* interval) only when telemetry is enabled and a parentSpanId was given; the
\* wrapping variants always interpose their transform and pump.
monitored ==
  IF variant = "tee" THEN telemetry.isEnabled /\ parentSpanId ELSE TRUE

\* Text accumulated by the instrumentation: tokenCounter's accumulatedText, the
\* monitor reader's accumulatedText.
accumulatedText == SubSeq(source, 1, srcPos)

\* The usage the wrappers hand to endGeneration.
PromptOnlyUsage ==
  [promptTokens |-> promptTokenCount, completionTokens |-> 0,
   totalTokens |-> promptTokenCount]

FinalUsageWithoutPrompt(fullText) ==
  [promptTokens |-> promptTokenCount,
   completionTokens |-> countTokens(fullText),
   totalTokens |-> countTokens(fullText)]
FinalUsage(fullText) ==
  [promptTokens |-> promptTokenCount,
   completionTokens |-> countTokens(fullText),
   totalTokens |-> promptTokenCount + countTokens(fullText)]

\* The guarded endGeneration call of the wrappers (endTelemetryGeneration in
\* the tee-based variant): the calls issued so far, extended or not.
endTelemetryGeneration(calls, st, usage) ==
  IF telemetry.isEnabled /\ telemetry.langfuse /\ generation
    THEN Append(calls, [status |-> st, usage |-> usage])
    ELSE calls

\* ------------------------------------------------------- wrapper: actions
\* streamTextWithTelemetry / streamObjectWithTelemetry up to its return: the
\* generation is started, the SDK's stream function is awaited, and either it
\* throws (catch block: error endGeneration, rethrow) or the transform, the
\* text/object handlers, the interval and the pump are installed.
WrapperCall ==
  /\ wpc = "init"
  /\ generation' = (telemetry.isEnabled /\ telemetry.langfuse)
  /\ \E sdkThrows \in BOOLEAN :
       IF sdkThrows
         THEN /\ wpc' = "threw"
              /\ endGenCalls' =
                   IF telemetry.isEnabled /\ telemetry.langfuse /\ generation'
                     THEN Append(endGenCalls,
                                 [status |-> "error", usage |-> PromptOnlyUsage])
                     ELSE endGenCalls
              /\ UNCHANGED << timerActive, pump >>
         ELSE /\ wpc' = "returned"
              /\ timerActive' = monitored
              /\ pump' = IF monitored THEN "running" ELSE "stopped"
              /\ UNCHANGED endGenCalls
  /\ UNCHANGED traceVars
  /\ UNCHANGED laterVars
  /\ UNCHANGED << variant, telemetry, parentSpanId, source, srcEnd, srcPos,
                  srcOver, outQ, outState, outErr, consumed, consumerEnd,
                  ticks, progressCalls, uncaught, textState >>

\* Whether somebody is reading the source: the pump behind the transform, the
\* monitor branch of the tee, or (nothing attached) the consumer itself.
sourceIsRead ==
  IF monitored THEN pump = "running" ELSE consumerEnd = "reading"

\* controller.error(e) on the stream handed to the consumer: an error is stored
\* and the queue is reset while the stream is readable, nothing otherwise.
ControllerError(kind) ==
  IF outState = "readable"
    THEN outState' = "errored" /\ outErr' = kind /\ outQ' = << >>
    ELSE UNCHANGED << outState, outErr, outQ >>

\* The source delivers its next chunk.  Wrapping variants: the transform adds
\* it to the accumulated text and (text) recounts the tokens of the whole text,
\* then the pump enqueues it; a throwing count errors the transform, the
\* pump's read rejects and its catch clears the interval and errors the
\* returned stream; an enqueue on a cancelled stream throws into the same
\* catch.  Tee variant: the chunk is enqueued on both branches and the monitor
\* reader appends it to its text.
SourceChunk ==
  /\ wpc = "returned" /\ ~srcOver /\ srcPos < Len(source) /\ sourceIsRead
  /\ srcPos' = srcPos + 1
  /\ IF variant = "wrapText" /\ encodeThrows(SubSeq(source, 1, srcPos + 1))
       THEN /\ timerActive' = FALSE
            /\ pump' = "stopped"
            /\ ControllerError("instrumentation")
       ELSE IF outState = "readable"
         THEN /\ outQ' = Append(outQ, source[srcPos + 1])
              /\ UNCHANGED << outState, outErr, timerActive, pump >>
         ELSE IF variant = "tee"
           THEN UNCHANGED << outQ, outState, outErr, timerActive, pump >>
           ELSE /\ timerActive' = FALSE
                /\ pump' = "stopped"
                /\ UNCHANGED << outQ, outState, outErr >>
  /\ UNCHANGED traceVars
  /\ UNCHANGED laterVars
  /\ UNCHANGED << variant, telemetry, parentSpanId, wpc, generation, source,
                  srcEnd, srcOver, consumed, consumerEnd, ticks, progressCalls,
                  uncaught, endGenCalls, textState >>

\* The source completes or errors after its last chunk.  The pump (the monitor
\* reader) sees done or the rejection, clears the interval, and the stream
\* handed to the consumer is closed (what is queued stays readable) or
\* errored.  With nothing attached the consumer reads the source itself and
\* meets its end after its chunks.
SourceEnd ==
  /\ wpc = "returned" /\ ~srcOver /\ srcPos = Len(source) /\ sourceIsRead
  /\ ~monitored => outQ = << >>
  /\ srcOver' = TRUE
  /\ timerActive' = FALSE
  /\ pump' = "stopped"
  /\ IF srcEnd = "complete"
       THEN /\ outState' = IF outState = "readable" THEN "closed" ELSE outState
            /\ UNCHANGED << outQ, outErr >>
       ELSE ControllerError("source")
  /\ UNCHANGED traceVars
  /\ UNCHANGED laterVars
  /\ UNCHANGED << variant, telemetry, parentSpanId, wpc, generation, source,
                  srcEnd, srcPos, consumed, consumerEnd, ticks, progressCalls,
                  uncaught, endGenCalls, textState >>

\* result.text / result.object settles once the source is over, and the
\* handlers the wrapper attached run: on fulfilment the final count and the
\* success endGeneration (a throwing count rejects into the catch handler),
\* on rejection the catch handler, which logs.
TextSettled ==
  /\ wpc = "returned" /\ srcOver /\ textState = "pending"
  /\ IF srcEnd = "complete" /\ ~encodeThrows(source)
       THEN /\ endGenCalls' =
                 endTelemetryGeneration(endGenCalls, "success",
                                        FinalUsage(source))
            /\ textState' = "fulfilled"
       ELSE /\ textState' = "logged"
            /\ UNCHANGED endGenCalls
  /\ UNCHANGED traceVars
  /\ UNCHANGED laterVars
  /\ UNCHANGED << variant, telemetry, parentSpanId, wpc, generation, source,
                  srcEnd, srcPos, srcOver, pump, outQ, outState, outErr,
                  consumed, consumerEnd, timerActive, ticks, progressCalls,
                  uncaught >>

\* Whether the interval callback gets as far as counting tokens, and whether
\* it gets as far as updateTraceMetadata.
tickCounts ==
  CASE variant = "wrapText" -> FALSE
    [] variant = "wrapObject" ->
         telemetry.isEnabled /\ parentSpanId /\ srcPos > 0
    [] variant = "tee" -> accumulatedText # << >>

tickReports ==
  CASE variant = "wrapText" -> telemetry.isEnabled /\ parentSpanId
    [] variant = "wrapObject" ->
         tickCounts /\ ~encodeThrows(<< source[srcPos] >>)
    [] variant = "tee" -> tickCounts /\ ~encodeThrows(accumulatedText)

\* setInterval(..., 100): the period of the monitoring interval, in ms.
monitoringPeriod == 100

\* The monitoring interval fires, for the n-th time n periods after it was
\* set up.  The callback tests telemetry.isEnabled and parentSpanId only: it
\* neither reads lastUpdate nor calls recordStreamingProgress.
Tick ==
  /\ wpc = "returned" /\ timerActive /\ ticks < MaxTicks
  /\ ticks' = ticks + 1
  /\ progressCalls' = IF tickReports THEN progressCalls + 1 ELSE progressCalls
  /\ reportTimes' = IF tickReports
                      THEN Append(reportTimes, (ticks + 1) * monitoringPeriod)
                      ELSE reportTimes
  /\ uncaught' = (uncaught \/ (tickCounts /\ ~tickReports))
  /\ UNCHANGED traceVars
  /\ UNCHANGED << genVars, mgrVars, trimVars, pureVars, tokVars, accVars,
                  regVars >>
  /\ UNCHANGED << variant, telemetry, parentSpanId, wpc, generation, source,
                  srcEnd, srcPos, srcOver, pump, outQ, outState, outErr,
                  consumed, consumerEnd, timerActive, endGenCalls, textState >>

\* The consumer reads from the stream it was handed: the next queued chunk,
\* else the stream's end.
ConsumerRead ==
  /\ wpc = "returned" /\ consumerEnd = "reading"
  /\ IF outQ # << >>
       THEN /\ consumed' = Append(consumed, Head(outQ))
            /\ outQ' = Tail(outQ)
            /\ UNCHANGED consumerEnd
       ELSE /\ outState \in {"closed", "errored"}
            /\ consumerEnd' =
                 IF outState = "closed" THEN "done"
                 ELSE IF outErr = "source" THEN "srcError" ELSE "instrError"
            /\ UNCHANGED << consumed, outQ >>
  /\ UNCHANGED traceVars
  /\ UNCHANGED laterVars
  /\ UNCHANGED << variant, telemetry, parentSpanId, wpc, generation, source,
                  srcEnd, srcPos, srcOver, pump, outState, outErr,
                  timerActive, ticks, progressCalls, uncaught, endGenCalls,
                  textState >>

\* The consumer cancels the stream it was handed.  The wrapping variants'
\* cancel() clears the interval; the tee cancels the delivery branch only.
ConsumerCancel ==
  /\ wpc = "returned" /\ consumerEnd = "reading"
  /\ outState = "readable" \/ (outState = "closed" /\ outQ # << >>)
  /\ consumerEnd' = "cancelled"
  /\ outState' = "cancelled"
  /\ outQ' = << >>
  /\ timerActive' = IF variant = "tee" THEN timerActive ELSE FALSE
  /\ UNCHANGED traceVars
  /\ UNCHANGED laterVars
  /\ UNCHANGED << variant, telemetry, parentSpanId, wpc, generation, source,
                  srcEnd, srcPos, srcOver, pump, outErr, consumed, ticks,
                  progressCalls, uncaught, endGenCalls, textState >>

NextStream ==
  \/ WrapperCall
  \/ SourceChunk
  \/ SourceEnd
  \/ TextSettled
  \/ Tick
  \/ ConsumerRead
  \/ ConsumerCancel

\* SpecStream: one call of a streaming wrapper, for every telemetry setting,
\* source and way the source ends.
InitStream ==
  /\ scope = NoScope
  /\ InitTrace
  /\ variant \in Variants
  /\ \E enabled \in BOOLEAN : telemetry = initializeTelemetry(enabled)
  /\ parentSpanId \in BOOLEAN
  /\ wpc = "init"
  /\ generation = FALSE
  /\ source \in SeqsUpTo(Chunks, MaxChunks)
  /\ srcEnd \in {"complete", "error"}
  /\ srcPos = 0
  /\ srcOver = FALSE
  /\ pump = "stopped"
  /\ outQ = << >>
  /\ outState = "readable"
  /\ outErr = "none"
  /\ consumed = << >>
  /\ consumerEnd = "reading"
  /\ timerActive = FALSE
  /\ ticks = 0
  /\ progressCalls = 0
  /\ uncaught = FALSE
  /\ endGenCalls = << >>
  /\ textState = "pending"
  /\ LaterIdle

SpecStream == InitStream /\ [][NextStream]_vars


\* =============================================================== Part III
\* generateTextWithTelemetry / generateObjectWithTelemetry
\* (src/ai/telemetry-wrappers.ts): one call of a wrapper.
streamRest == << variant, parentSpanId, wpc, generation, source, srcEnd,
                 srcPos, srcOver, pump, outQ, outState, outErr, consumed,
                 consumerEnd, timerActive, ticks, progressCalls, uncaught,
                 endGenCalls, textState >>

\* Prompts handed to the wrappers: empty, plain, and one that contains the
\* literal of a special token.
GenPrompts == { << >>, << "p" >>, << "p", "q" >>, << "p", SpecialToken >> }

\* result.usage as the SDK reports it.
ResultUsages ==
  { [promptTokens |-> 2, completionTokens |-> 3, totalTokens |-> 5],
    [promptTokens |-> 1, completionTokens |-> 0, totalTokens |-> 1] }

\* The usage of the wrappers' catch block.
GenPromptOnlyUsage ==
  [promptTokens |-> countTokens(gPrompt), completionTokens |-> 0,
   totalTokens |-> countTokens(gPrompt)]

\* The wrapper up to `await generateText(...)`: the prompt tokens are counted
\* (outside any try block: a throw leaves the wrapper), the generation is
\* started inside a try/catch when telemetry is on, the model is invoked.
GenCall ==
  /\ gpc = "init"
  /\ IF encodeThrows(gPrompt)
       THEN /\ gpc' = "threw"
            /\ gOutcome' = "telemetryError"
            /\ UNCHANGED << gGeneration, gModel, gLogged >>
       ELSE \E startThrows \in BOOLEAN :
              LET on == telemetry.isEnabled /\ telemetry.langfuse
              IN /\ gGeneration' = (on /\ ~startThrows)
                 /\ gLogged' = IF on /\ startThrows THEN gLogged + 1
                               ELSE gLogged
                 /\ gModel' = "running"
                 /\ gpc' = "awaiting"
                 /\ UNCHANGED gOutcome
  /\ UNCHANGED << gKind, gPrompt, gCalls >>
  /\ UNCHANGED << traceVars, telemetry, streamRest, mgrVars, trimVars, extraVars >>

\* The catch block without the inner try/catch and the generation check: a
\* throwing endGeneration replaces the model's error.
GenCatchMasking(endThrows) ==
  LET on == telemetry.isEnabled /\ telemetry.langfuse
  IN /\ gCalls' = IF on
                    THEN Append(gCalls, [status |-> "error",
                                         usage |-> GenPromptOnlyUsage])
                    ELSE gCalls
     /\ gLogged' = gLogged
     /\ gOutcome' = IF on /\ endThrows THEN "telemetryError" ELSE "modelError"

\* The catch block of the wrappers: the error endGeneration inside its own
\* try/catch, issued only for a generation the wrapper holds, then the
\* original error is rethrown.
GenCatch(endThrows) ==
  LET on == telemetry.isEnabled /\ telemetry.langfuse
  IN /\ gCalls' = IF on /\ gGeneration
                    THEN Append(gCalls, [status |-> "error",
                                         usage |-> GenPromptOnlyUsage])
                    ELSE gCalls
     /\ gLogged' = IF on /\ gGeneration /\ endThrows THEN gLogged + 1
                   ELSE gLogged
     /\ gOutcome' = "modelError"

\* generateText / generateObject rejects.
GenModelThrows ==
  /\ gpc = "awaiting"
  /\ gModel' = "threw"
  /\ gpc' = "threw"
  /\ \E endThrows \in BOOLEAN : GenCatch(endThrows)
  /\ UNCHANGED << gKind, gPrompt, gGeneration >>
  /\ UNCHANGED << traceVars, telemetry, streamRest, mgrVars, trimVars, extraVars >>

\* generateText / generateObject fulfils: the success endGeneration inside its
\* own try/catch (called whether or not the wrapper holds a generation), then
\* the result is returned.
GenModelReturns ==
  /\ gpc = "awaiting"
  /\ gModel' = "returned"
  /\ gpc' = "returned"
  /\ gOutcome' = "result"
  /\ \E u \in ResultUsages, endThrows \in BOOLEAN :
       LET on == telemetry.isEnabled /\ telemetry.langfuse
       IN /\ gCalls' = IF on
                         THEN Append(gCalls, [status |-> "success",
                                              usage |-> u])
                         ELSE gCalls
          /\ gLogged' = IF on /\ endThrows THEN gLogged + 1 ELSE gLogged
  /\ UNCHANGED << gKind, gPrompt, gGeneration >>
  /\ UNCHANGED << traceVars, telemetry, streamRest, mgrVars, trimVars, extraVars >>

NextGenerate ==
  \/ GenCall
  \/ GenModelThrows
  \/ GenModelReturns

\* SpecGenerate: one call of a generate wrapper, for every telemetry setting
\* and prompt.
InitGenerate ==
  /\ scope = NoScope
  /\ InitTrace
  /\ \E enabled \in BOOLEAN : telemetry = initializeTelemetry(enabled)
  /\ StreamRestIdle
  /\ gKind \in {"text", "object"}
  /\ gPrompt \in GenPrompts
  /\ gpc = "init"
  /\ gGeneration = FALSE
  /\ gModel = "notInvoked"
  /\ gOutcome = "pending"
  /\ gCalls = << >>
  /\ gLogged = 0
  /\ MgrIdle
  /\ TrimIdle
  /\ ExtraIdle

SpecGenerate == InitGenerate /\ [][NextGenerate]_vars


\* ================================================================ Part IV
\* The TraceManager of src/ai/telemetry.ts with the module-level registries
\* and the Langfuse client it talks to.
on == telemetry.isEnabled /\ telemetry.langfuse

\* Everything outside Part IV.
nonMgrVars == << traceVars, streamVars, genVars, trimVars, extraVars >>

\* A TraceManager right after its field initialisers; `constructed` tells
\* whether its constructor returned, that is whether anybody holds it.
NewManagerObject(id, client) ==
  [traceId |-> id, traceClient |-> client, spanClients |-> {},
   spanStubs |-> {}, activeGenerations |-> {}, fpc |-> "idle",
   finished |-> 0, constructed |-> TRUE]

\* Whether a failing telemetry.langfuse.trace(...) call makes the
\* constructor throw: createRootTrace has a try/catch, the lookup of an
\* existing trace id in the constructor has none.
lookupThrows(existing) == existing # 0

\* new TraceManager(name, metadata, sessionId, userId, existingTraceId):
\* existing = 0 stands for no existingTraceId, and the fresh uuid is the
\* number of the manager.  The warning needs a fresh id that is already
\* registered; createRootTrace catches a failing client, the lookup of an
\* existing trace sends the id alone and lets the client's exception out of
\* the constructor, after the id was registered.
TraceManagerConstructor(existing, clientFails) ==
  LET id == IF existing = 0 THEN Len(managers) + 1 ELSE existing
      duplicate == existing = 0 /\ id \in activeTraces
      sends == on /\ ~clientFails
      throws == on /\ clientFails /\ lookupThrows(existing)
  IN /\ warnings' = IF duplicate THEN warnings + 1 ELSE warnings
     /\ activeTraces' = IF duplicate THEN activeTraces
                        ELSE activeTraces \cup {id}
     /\ backend' =
          IF sends
            THEN [backend EXCEPT !.traces =
                    Append(@, [id |-> id, root |-> (existing = 0)])]
            ELSE backend
     /\ managers' = Append(managers,
                           [NewManagerObject(id, sends) EXCEPT
                              !.constructed = ~throws])

\* createTraceManager(name, metadata, sessionId, userId, parentTraceId)
createTraceManager ==
  /\ Len(managers) < MaxManagers
  /\ \E existing \in {0} \cup { managers[m].traceId : m \in DOMAIN managers },
        clientFails \in BOOLEAN :
       TraceManagerConstructor(existing, clientFails)
  /\ UNCHANGED << modSpans, modGenerations, handles >>
  /\ UNCHANGED nonMgrVars

\* TraceManager.startSpan: disabled, the id is kept with a local stub;
\* enabled, the span is created at the backend and registered in both maps,
\* and a failing client leaves a local stub.
mgrStartSpan ==
  /\ Len(handles) < MaxHandles
  /\ \E m \in DOMAIN managers, clientFails \in BOOLEAN :
       /\ managers[m].constructed
       /\ LET id == Len(handles) + 1
          IN /\ handles' = Append(handles,
                                  [kind |-> "span", mgr |-> m, open |-> TRUE])
             /\ IF on /\ ~clientFails
                  THEN /\ backend' = [backend EXCEPT !.spans = @ \cup {id}]
                       /\ modSpans' = modSpans \cup {id}
                       /\ managers' = [managers EXCEPT
                                         ![m].spanClients = @ \cup {id}]
                  ELSE /\ managers' = [managers EXCEPT
                                         ![m].spanStubs = @ \cup {id}]
                       /\ UNCHANGED << backend, modSpans >>
  /\ UNCHANGED << activeTraces, modGenerations, warnings >>
  /\ UNCHANGED nonMgrVars

\* TraceManager.startGeneration: disabled, or with a failing client, a fresh
\* id is returned and nothing is registered; enabled, the generation is
\* created at the backend and registered in both maps.
mgrStartGeneration ==
  /\ Len(handles) < MaxHandles
  /\ \E m \in DOMAIN managers, clientFails \in BOOLEAN :
       /\ managers[m].constructed
       /\ LET id == Len(handles) + 1
          IN /\ handles' = Append(handles,
                                  [kind |-> "generation", mgr |-> m,
                                   open |-> TRUE])
             /\ IF on /\ ~clientFails
                  THEN /\ backend' = [backend EXCEPT !.generations = @ \cup {id}]
                       /\ modGenerations' = modGenerations \cup {id}
                       /\ managers' = [managers EXCEPT
                                         ![m].activeGenerations = @ \cup {id}]
                  ELSE UNCHANGED << backend, modGenerations, managers >>
  /\ UNCHANGED << activeTraces, modSpans, warnings >>
  /\ UNCHANGED nonMgrVars


\* The part of the state endSpan and endGeneration work on.
World == [managers |-> managers, modSpans |-> modSpans,
          modGenerations |-> modGenerations, backend |-> backend]

CallerMetadata == EmptyObj

\* The catch blocks of endSpan and endGeneration delete the id from both
\* registries as the normal path does.
catchKeepsEntry == FALSE
catchDeletesEntry == TRUE
EarlyTermination == Put(EmptyObj, "earlyTermination", TRUE)

\* TraceManager.endSpan on manager m: disabled, the local entry is dropped;
\* enabled, an unknown id is left alone, a span client is updated with the
\* given metadata, a stub has neither update nor end, and the id leaves both
\* registries whether or not the client throws.
endSpanIn(w, m, id, meta, clientFails) ==
  LET M == w.managers[m]
      dropped == [w.managers EXCEPT ![m].spanClients = @ \ {id},
                                    ![m].spanStubs = @ \ {id}]
  IN IF ~on THEN [w EXCEPT !.managers = dropped]
     ELSE IF id \notin M.spanClients \cup M.spanStubs THEN w
     ELSE [w EXCEPT
             !.managers = IF clientFails /\ ~catchDeletesEntry THEN @ ELSE dropped,
             !.modSpans = IF clientFails /\ ~catchDeletesEntry THEN @ ELSE @ \ {id},
             !.backend.spanUpdates =
               IF id \in M.spanClients /\ ~clientFails
                 THEN Append(@, [id |-> id, metadata |-> meta])
                 ELSE @]

\* TraceManager.updateTraceTokenUsage
updateTraceTokenUsage(be, M, id, usage) ==
  IF on /\ M.traceClient
    THEN [be EXCEPT !.traceIncrements =
            Append(@, [trace |-> M.traceId, generationId |-> id,
                       totalTokensIncrement |-> usage.totalTokens])]
    ELSE be

\* TraceManager.endGeneration on manager m: disabled, nothing happens;
\* enabled, a registered generation is updated through its client and any
\* other id through a fresh generation call with update: true, the usage is
\* sent to the trace, and the id leaves both registries.
endGenerationIn(w, m, id, output, usage, meta, clientFails) ==
  LET M == w.managers[m]
      dropped == [w.managers EXCEPT ![m].activeGenerations = @ \ {id}]
      sent == [w.backend EXCEPT !.generationUpdates =
                 Append(@, [id |-> id, output |-> output, usage |-> usage,
                            metadata |-> meta,
                            fallback |-> id \notin M.activeGenerations])]
  IN IF ~on THEN w
     ELSE [w EXCEPT
             !.managers = IF clientFails /\ ~catchDeletesEntry THEN @ ELSE dropped,
             !.modGenerations =
               IF clientFails /\ ~catchDeletesEntry THEN @ ELSE @ \ {id},
             !.backend = IF clientFails THEN @
                         ELSE updateTraceTokenUsage(sent, M, id, usage)]

SetWorld(w) ==
  /\ managers' = w.managers
  /\ modSpans' = w.modSpans
  /\ modGenerations' = w.modGenerations
  /\ backend' = w.backend

CloseHandle(id) == [handles EXCEPT ![id].open = FALSE]

\* A caller's endSpan(spanId, output, metadata) with an id startSpan gave.
mgrEndSpan ==
  /\ \E id \in DOMAIN handles, clientFails \in BOOLEAN :
       /\ handles[id].kind = "span"
       /\ SetWorld(endSpanIn(World, handles[id].mgr, id, CallerMetadata,
                             clientFails))
       /\ handles' = CloseHandle(id)
  /\ UNCHANGED << activeTraces, warnings >>
  /\ UNCHANGED nonMgrVars

\* A caller's endGeneration(generationId, output, usage, metadata) with an id
\* startGeneration gave, ended or not.
mgrEndGeneration ==
  /\ Len(backend.generationUpdates) < MaxUpdates
  /\ \E id \in DOMAIN handles, usage \in ResultUsages,
        clientFails \in BOOLEAN :
       /\ handles[id].kind = "generation"
       /\ SetWorld(endGenerationIn(World, handles[id].mgr, id, "result",
                                   usage, CallerMetadata, clientFails))
       /\ handles' = CloseHandle(id)
  /\ UNCHANGED << activeTraces, warnings >>
  /\ UNCHANGED nonMgrVars


ForcedUsage == [promptTokens |-> 0, completionTokens |-> 0, totalTokens |-> 0]

FirstId(ids) == CHOOSE i \in ids : \A j \in ids : i <= j

\* finishTrace's first loop: endSpan(spanId, null, {earlyTermination: true})
\* for the entries of this.activeSpans, in insertion order.
RECURSIVE endRemainingSpans(_, _, _)
endRemainingSpans(w, m, ids) ==
  IF ids = {} THEN w
  ELSE endRemainingSpans(
         endSpanIn(w, m, FirstId(ids), EarlyTermination, FALSE),
         m, ids \ {FirstId(ids)})

\* finishTrace's second loop: endGeneration(genId, {earlyTermination: true},
\* zero usage) for the entries of this.activeGenerations.
RECURSIVE endRemainingGenerations(_, _, _)
endRemainingGenerations(w, m, ids) ==
  IF ids = {} THEN w
  ELSE endRemainingGenerations(
         endGenerationIn(w, m, FirstId(ids), EarlyTermination, ForcedUsage,
                         EmptyObj, FALSE),
         m, ids \ {FirstId(ids)})

\* Both loops of finishTrace on manager m.
closeRemaining(m) ==
  LET M == managers[m]
      w1 == endRemainingSpans(World, m, M.spanClients \cup M.spanStubs)
  IN endRemainingGenerations(w1, m, M.activeGenerations)

\* The handles of manager m, all closed.
CloseHandlesOf(m) ==
  [i \in DOMAIN handles |->
     IF handles[i].mgr = m THEN [handles[i] EXCEPT !.open = FALSE]
     ELSE handles[i]]

FinishStatuses == {"success", "error"}

\* The finishTrace calls made so far, returned or waiting for the flush.
RECURSIVE finishCallsOf(_)
finishCallsOf(ms) ==
  IF ms = << >> THEN 0
  ELSE ms[1].finished + (IF ms[1].fpc = "flushing" THEN 1 ELSE 0)
         + finishCallsOf(Tail(ms))

finishCalls == finishCallsOf(managers)

\* finishTrace(status, finalMetadata) up to its return or its
\* `await telemetry.langfuse.flushAsync()`: the two loops, the early return
\* without telemetry or trace client, the trace update and the flush request.
finishTraceBegin ==
  \E m \in DOMAIN managers, st \in FinishStatuses :
    LET w == closeRemaining(m)
        M == w.managers[m]
        goes == on /\ M.traceClient
        sent == [w.backend EXCEPT
                   !.traceFinishes =
                     Append(@, [trace |-> M.traceId, status |-> st,
                                closedSpans |-> Len(w.backend.spanUpdates),
                                closedGenerations |->
                                  Len(w.backend.generationUpdates)]),
                   !.flushes = @ + 1]
    IN /\ managers[m].fpc = "idle"
       /\ managers[m].constructed
       /\ finishCalls < MaxFinish
       /\ managers' =
            [w.managers EXCEPT
               ![m].fpc = IF goes THEN "flushing" ELSE "idle",
               ![m].finished = IF goes THEN @ ELSE @ + 1]
       /\ modSpans' = w.modSpans
       /\ modGenerations' = w.modGenerations
       /\ backend' = IF goes THEN sent ELSE w.backend
       /\ handles' = CloseHandlesOf(m)
       /\ UNCHANGED << activeTraces, warnings >>
       /\ UNCHANGED nonMgrVars

\* finishTrace after the flush settled: the trace id leaves activeTraces,
\* on the normal path and in the catch block alike.
finishTraceDone ==
  \E m \in DOMAIN managers :
    /\ managers[m].fpc = "flushing"
    /\ managers' = [managers EXCEPT ![m].fpc = "idle", ![m].finished = @ + 1]
    /\ activeTraces' = activeTraces \ {managers[m].traceId}
    /\ UNCHANGED << modSpans, modGenerations, handles, backend, warnings >>
    /\ UNCHANGED nonMgrVars

NextManager ==
  \/ createTraceManager
  \/ mgrStartSpan
  \/ mgrStartGeneration
  \/ mgrEndSpan
  \/ mgrEndGeneration
  \/ finishTraceBegin
  \/ finishTraceDone

\* initializeTelemetry() has run, with or without a Langfuse client; no
\* TraceManager exists yet.
InitManager ==
  /\ scope = NoScope
  /\ InitTrace
  /\ \E enabled \in BOOLEAN : telemetry = initializeTelemetry(enabled)
  /\ StreamRestIdle
  /\ GenIdle
  /\ MgrIdle
  /\ TrimIdle
  /\ ExtraIdle

SpecManager == InitManager /\ [][NextManager]_vars

\* The spans and generations of one manager without finishTrace: callers
\* start and end them one by one.
NextEnds ==
  \/ mgrStartSpan
  \/ mgrStartGeneration
  \/ mgrEndSpan
  \/ mgrEndGeneration

\* initializeTelemetry() has run and one TraceManager has been constructed
\* without an existing trace id, its root trace created or not.
InitEnds ==
  /\ scope = NoScope
  /\ InitTrace
  /\ \E enabled \in BOOLEAN : telemetry = initializeTelemetry(enabled)
  /\ StreamRestIdle
  /\ GenIdle
  /\ TrimIdle
  /\ ExtraIdle
  /\ activeTraces = {1}
  /\ modSpans = {}
  /\ modGenerations = {}
  /\ handles = << >>
  /\ warnings = 0
  /\ \E clientFails \in BOOLEAN :
       LET sends == on /\ ~clientFails
       IN /\ managers = << NewManagerObject(1, sends) >>
          /\ backend = IF sends
                         THEN [NoBackend EXCEPT
                                 !.traces = << [id |-> 1, root |-> TRUE] >>]
                         ELSE NoBackend

SpecEnds == InitEnds /\ [][NextEnds]_vars


\* ================================================================= Part V
\* trimPrompt of src/ai/tokenizer.ts.  A text is a prefix of the prompt and
\* is given by its length; the tokens of the prompt are tIn.width characters
\* wide, and a token cut by a slice still counts as one.
MIN_CHUNK_SIZE == 140

PromptLengths == {0, 100, 139, 140, 200, 400}
TokenWidths == {2, 4, 5}
BoundaryPositions == {3, 120, 180}

\* countTokens(prompt.slice(0, len), family)
countPrefixTokens(len, width) == (len + width - 1) \div width

\* Math.min(a, b), the length of text.slice(0, b) for a text of length a
sliceLength(a, b) == IF a < b THEN a ELSE b

\* new RecursiveCharacterTextSplitter({chunkSize, chunkOverlap: 0})
\*   .splitText(prompt)[0]: the prompt up to the last semantic boundary that
\* fits chunkSize, the whole prompt when no boundary fits.
splitTextFirst(len, bounds, chunkSize) ==
  LET fits == { b \in bounds : b < len /\ b <= chunkSize }
  IN IF fits = {} THEN len
     ELSE CHOOSE b \in fits : \A c \in fits : c <= b

\* length <= contextSize
withinContextLoose(length, contextSize) == length <= contextSize + 1
withinContext(length, contextSize) == length <= contextSize

\* prompt.length - Math.ceil(overflowTokens * 3.5)
chunkSizeFor(len, overflowTokens) == len - ((7 * overflowTokens + 1) \div 2)

\* trimPrompt(prompt, contextSize, modelFamily), on the length of the prompt
RECURSIVE trimPrompt(_, _, _, _)
trimPrompt(len, contextSize, width, bounds) ==
  IF len = 0 THEN 0
  ELSE
    LET length == countPrefixTokens(len, width)
        overflowTokens == length - contextSize
        chunkSize == chunkSizeFor(len, overflowTokens)
        trimmedPrompt == splitTextFirst(len, bounds, chunkSize)
    IN IF withinContext(length, contextSize) THEN len
       ELSE IF chunkSize < MIN_CHUNK_SIZE
         THEN sliceLength(len, MIN_CHUNK_SIZE)
       ELSE IF trimmedPrompt = len
         THEN trimPrompt(chunkSize, contextSize, width, bounds)
       ELSE trimPrompt(trimmedPrompt, contextSize, width, bounds)

\* A call trimPrompt(prompt, contextSize, family) and its return.
trimPromptCall ==
  /\ tOut = None
  /\ tOut' = Some(trimPrompt(tIn.len, tBudget, tIn.width, tIn.bounds))
  /\ UNCHANGED << tIn, tBudget, tStack >>
  /\ UNCHANGED << traceVars, streamVars, genVars, mgrVars, extraVars >>

NextTrim == trimPromptCall

\* SpecTrim: one trimPrompt call for every prompt and budget.
InitTrim ==
  /\ scope = NoScope
  /\ InitTrace
  /\ StreamIdle
  /\ GenIdle
  /\ MgrIdle
  /\ \E len \in PromptLengths, width \in TokenWidths :
       \E bounds \in SUBSET { b \in BoundaryPositions : b < len } :
         tIn = [len |-> len, width |-> width, bounds |-> bounds]
  /\ tBudget \in 1..MaxBudget
  /\ tOut = None
  /\ tStack = << >>
  /\ ExtraIdle

SpecTrim == InitTrim /\ [][NextTrim]_vars

\* ---- trimPrompt, one invocation at a time, with any splitter
\* splitText(prompt)[0] ?? '' for a splitter of which nothing is known but
\* that its chunks are pieces of the prompt: the empty text, the prompt up to
\* one of its boundaries, or the whole prompt.
SplitterChunks(len, bounds) == {0, len} \cup { b \in bounds : b < len }

\* The argument of the recursive call: the hard cut when the chunk is as long
\* as the prompt, the chunk otherwise.
recursiveArgumentUnguarded(len, chunk, chunkSize) == chunk
recursiveArgument(len, chunk, chunkSize) ==
  IF chunk = len THEN chunkSize ELSE chunk

\* The prompt of the innermost invocation.
currentPrompt == tStack[Len(tStack)]

\* One invocation of trimPrompt: it returns (and with it every caller, which
\* returns the callee's value), or it calls itself on another text.
trimPromptInvoke ==
  /\ tOut = None
  /\ tStack # << >>
  /\ LET len == currentPrompt
         length == countPrefixTokens(len, tIn.width)
         chunkSize == chunkSizeFor(len, length - tBudget)
     IN IF len = 0 THEN tOut' = Some(0) /\ tStack' = tStack
        ELSE IF withinContext(length, tBudget)
          THEN tOut' = Some(len) /\ tStack' = tStack
        ELSE IF chunkSize < MIN_CHUNK_SIZE
          THEN /\ tOut' = Some(sliceLength(len, MIN_CHUNK_SIZE))
               /\ tStack' = tStack
        ELSE \E chunk \in SplitterChunks(len, tIn.bounds) :
               /\ tStack' = Append(tStack,
                                   recursiveArgument(len, chunk, chunkSize))
               /\ tOut' = None
  /\ UNCHANGED << tIn, tBudget >>
  /\ UNCHANGED << traceVars, streamVars, genVars, mgrVars, extraVars >>

NextTrimSteps == trimPromptInvoke

\* SpecTrimSteps: trimPrompt has been called; every invocation runs in turn.
InitTrimSteps ==
  /\ scope = NoScope
  /\ InitTrace
  /\ StreamIdle
  /\ GenIdle
  /\ MgrIdle
  /\ \E len \in PromptLengths, width \in TokenWidths :
       \E bounds \in SUBSET { b \in BoundaryPositions : b < len } :
         tIn = [len |-> len, width |-> width, bounds |-> bounds]
  /\ tBudget \in 1..MaxBudget
  /\ tOut = None
  /\ tStack = << tIn.len >>
  /\ ExtraIdle

SpecTrimSteps ==
  InitTrimSteps /\ [][NextTrimSteps]_vars /\ WF_vars(NextTrimSteps)


\* ================================================================ Part VI
\* detectModelFamily of src/ai/tokenizer.ts.  A model name is a sequence of
\* pieces, each a family keyword in some spelling or a piece with no keyword
\* in it.
ModelFamily == {"gpt", "claude", "llama", "mistral", "gemini", "cohere"}
DEFAULT_MODEL_FAMILY == "gpt"

NamePieces ==
  {"gpt", "GPT", "claude", "Claude", "LLaMA", "mistral", "Gemini", "cohere",
   "Command", "turbo"}

\* String.prototype.toLowerCase, piece by piece
toLowerCaseIdentity(piece) == piece
toLowerCase(piece) ==
  CASE piece = "GPT" -> "gpt"
    [] piece = "Claude" -> "claude"
    [] piece = "LLaMA" -> "llama"
    [] piece = "Gemini" -> "gemini"
    [] piece = "Command" -> "command"
    [] OTHER -> piece

\* lowerModel.includes(keyword)
includes(modelName, keyword) ==
  \E i \in DOMAIN modelName : toLowerCase(modelName[i]) = keyword

detectModelFamily(modelName) ==
  IF includes(modelName, "gpt") THEN "gpt"
  ELSE IF includes(modelName, "claude") THEN "claude"
  ELSE IF includes(modelName, "llama") THEN "llama"
  ELSE IF includes(modelName, "mistral") THEN "mistral"
  ELSE IF includes(modelName, "gemini") THEN "gemini"
  ELSE IF includes(modelName, "cohere") \/ includes(modelName, "command")
    THEN "cohere"
  ELSE DEFAULT_MODEL_FAMILY

\* Everything outside the call of a pure function.
nonPureVars ==
  << traceVars, streamVars, genVars, mgrVars, trimVars, tokVars, accVars,
     progVars, regVars >>

\* No part but the pure call is in use.
OnlyPure ==
  /\ scope = NoScope
  /\ InitTrace
  /\ StreamIdle
  /\ GenIdle
  /\ MgrIdle
  /\ TrimIdle
  /\ TokIdle
  /\ AccIdle
  /\ ProgIdle
  /\ RegIdle

detectModelFamilyCall ==
  /\ ret = None
  /\ call # None
  /\ call[1].fn = "detectModelFamily"
  /\ ret' = Some(detectModelFamily(call[1].modelName))
  /\ UNCHANGED call
  /\ UNCHANGED nonPureVars

NextFamily == detectModelFamilyCall

ModelNames == UNION { [1..n -> NamePieces] : n \in 1..MaxWords }

InitFamily ==
  /\ OnlyPure
  /\ \E modelName \in ModelNames :
       call = Some([fn |-> "detectModelFamily", modelName |-> modelName])
  /\ ret = None

SpecFamily == InitFamily /\ [][NextFamily]_vars


\* =============================================================== Part VII
\* The encoder cache of src/ai/tokenizer.ts.
encodingMap(family) == "cl100k_base"

\* !encoderCache[encodingKey]
notCachedEver(cache, encodingKey) == TRUE
notCached(cache, encodingKey) == encodingKey \notin cache

\* Everything outside the encoder cache.
nonTokVars ==
  << traceVars, streamVars, genVars, mgrVars, trimVars, pureVars, accVars,
     progVars, regVars >>

\* countTokens(text, modelFamily), also through countTokensForModel: the
\* empty text returns 0 at once; otherwise getEncoderForModelFamily creates
\* and caches the encoder of the family's scheme if there is none, and the
\* text is encoded, which throws on the literal of a special token.
countTokensCall ==
  /\ Len(tokLog) < MaxCalls
  /\ \E family \in ModelFamily, text \in GenPrompts :
       LET encodingKey == encodingMap(family)
           creates == text # << >> /\ notCached(encoderCache, encodingKey)
       IN /\ encoderCache' = IF text = << >> THEN encoderCache
                             ELSE encoderCache \cup {encodingKey}
          /\ tokLog' =
               Append(tokLog,
                      [family |-> family, text |-> text,
                       getEncoding |-> creates,
                       outcome |-> IF text # << >> /\ encodeThrows(text)
                                     THEN "threw"
                                     ELSE "returned",
                       tokens |-> IF text # << >> /\ encodeThrows(text)
                                    THEN 0 ELSE countTokens(text)])
  /\ UNCHANGED nonTokVars

\* clearEncoderCache()
clearEncoderCache ==
  /\ encoderCache' = {}
  /\ tokLog' = << >>
  /\ UNCHANGED nonTokVars

NextTokenizer == countTokensCall \/ clearEncoderCache

InitTokenizer ==
  /\ scope = NoScope
  /\ InitTrace
  /\ StreamIdle
  /\ GenIdle
  /\ MgrIdle
  /\ TrimIdle
  /\ PureIdle
  /\ TokIdle
  /\ AccIdle
  /\ ProgIdle
  /\ RegIdle

SpecTokenizer == InitTokenizer /\ [][NextTokenizer]_vars


\* ------------------------------------------------------------------------
\* Part VIII: TokenUsageTracker on its own (src/token/usage.ts).  The
\* tracker's fields are usageHistory and modelTotals; `call` holds the call
\* being made and `ret` what it returned.
\* ------------------------------------------------------------------------
\* Records handed to addUsage: of two named models (two records of one of
\* them), of a model named 'unknown', and one without a model.
TrackerUsages ==
  Usages \cup
  { [promptTokens |-> 3, completionTokens |-> 4, totalTokens |-> 7, model |-> NoModel],
    [promptTokens |-> 2, completionTokens |-> 2, totalTokens |-> 4, model |-> "unknown"],
    [promptTokens |-> 5, completionTokens |-> 0, totalTokens |-> 5, model |-> "m1"] }

RECURSIVE reduceTotals(_, _)
\* The reduce() of getTotalUsage over the per-model entries S.
reduceTotals(totals, S) ==
  IF S = {} THEN ZeroUsage("all-models")
  ELSE LET m == CHOOSE x \in S : TRUE
           total == reduceTotals(totals, S \ {m})
       IN [promptTokens |-> total.promptTokens + totals[m].promptTokens,
           completionTokens |-> total.completionTokens + totals[m].completionTokens,
           totalTokens |-> total.totalTokens + totals[m].totalTokens,
           model |-> "all-models"]

trackerRest ==
  << scope, now, status, endTime, metadata, tags, spans, threw, endPc, endInfo,
     flushCount, endIgnored, streamVars, genVars, mgrVars, trimVars, tokVars,
     accVars, progVars, regVars >>

\* TokenUsageTracker.addUsage(usage)
addUsage ==
  /\ Len(usageHistory) < MaxUsage
  /\ \E usage \in TrackerUsages :
       /\ call' = Some([fn |-> "addUsage", usage |-> usage])
       /\ usageHistory' = Append(usageHistory, usage)
       /\ modelTotals' = addUsageTotals(modelTotals, usage)
  /\ ret' = None
  /\ UNCHANGED trackerRest

\* TokenUsageTracker.getModelTotals()
getModelTotals ==
  /\ call' = Some([fn |-> "getModelTotals"])
  /\ ret' = Some(modelTotals)
  /\ UNCHANGED << usageHistory, modelTotals >>
  /\ UNCHANGED trackerRest

\* TokenUsageTracker.getTotalUsage()
getTotalUsageCall ==
  /\ call' = Some([fn |-> "getTotalUsage"])
  /\ ret' = Some(reduceTotals(modelTotals, DOMAIN modelTotals))
  /\ UNCHANGED << usageHistory, modelTotals >>
  /\ UNCHANGED trackerRest

\* TokenUsageTracker.getHistory()
getHistory ==
  /\ call' = Some([fn |-> "getHistory"])
  /\ ret' = Some(usageHistory)
  /\ UNCHANGED << usageHistory, modelTotals >>
  /\ UNCHANGED trackerRest

\* TokenUsageTracker.reset()
reset ==
  /\ call' = Some([fn |-> "reset"])
  /\ usageHistory' = << >>
  /\ modelTotals' = EmptyObj
  /\ ret' = None
  /\ UNCHANGED trackerRest

NextTracker ==
  addUsage \/ getModelTotals \/ getTotalUsageCall \/ getHistory \/ reset

InitTracker ==
  /\ scope = NoScope
  /\ InitTrace
  /\ StreamIdle
  /\ LaterIdle

SpecTracker == InitTracker /\ [][NextTracker]_vars

\* ------------------------------------------------------------------------
\* Part IX: the accumulating transform (src/ai/stream-utils.ts:18-80).
\* A JavaScript value is a record [kind, num, items, fields]: a number
\* (num), a string (items: its pieces), an array (items: its elements), an
\* object (fields: a function from key strings to values) or undefined.
\* ------------------------------------------------------------------------
Undefined == [kind |-> "undefined", num |-> 0, items |-> << >>, fields |-> EmptyObj]
Num(n) == [kind |-> "number", num |-> n, items |-> << >>, fields |-> EmptyObj]
Str(pieces) == [kind |-> "string", num |-> 0, items |-> pieces, fields |-> EmptyObj]
Arr(elements) == [kind |-> "array", num |-> 0, items |-> elements, fields |-> EmptyObj]
Obj(fs) == [kind |-> "object", num |-> 0, items |-> << >>, fields |-> fs]

\* typeof x === 'object' && x !== null
isObjectType(x) == x.kind \in {"object", "array"}

\* JavaScript truthiness: undefined, null, 0 and '' are falsy, objects and arrays
\* are truthy.
truthy(x) ==
  CASE x.kind = "undefined" -> FALSE
    [] x.kind = "null" -> FALSE
    [] x.kind = "number" -> x.num # 0
    [] x.kind = "string" -> x.items # << >>
    [] OTHER -> TRUE

\* The property names of array indices 0, 1, 2.
IndexKeys == << "0", "1", "2" >>

\* The own enumerable keys of a value: what `for (key in x)` visits and
\* what {...x} copies.
ownKeys(x) ==
  CASE x.kind = "object" -> DOMAIN x.fields
    [] x.kind = "array" -> { IndexKeys[i] : i \in DOMAIN x.items }
    [] OTHER -> {}

\* x[key]
getKey(x, key) ==
  CASE x.kind = "object" ->
         IF key \in DOMAIN x.fields THEN x.fields[key] ELSE Undefined
    [] x.kind = "array" ->
         IF \E i \in DOMAIN x.items : IndexKeys[i] = key
           THEN x.items[CHOOSE i \in DOMAIN x.items : IndexKeys[i] = key]
           ELSE Undefined
    [] OTHER -> Undefined

RECURSIVE deepMerge(_, _)
\* deepMerge(target, source), source called update here: result =
\* {...target}; every key of source
\* whose value is of type object, while target[key] is truthy, is merged
\* recursively, any other key takes source's value.
deepMerge(target, update) ==
  Obj([key \in ownKeys(target) \cup ownKeys(update) |->
         IF key \in ownKeys(update)
           THEN IF isObjectType(getKey(update, key)) /\ truthy(getKey(target, key))
                  THEN deepMerge(getKey(target, key), getKey(update, key))
                  ELSE getKey(update, key)
           ELSE getKey(target, key)])

\* Values of partial objects: numbers (0 is falsy), arrays of numbers, and
\* nested objects with one optional key.
NumberValues == { Num(0), Num(1), Num(2) }
ArrayValues == { Arr(<< Num(1) >>), Arr(<< Num(2) >>), Arr(<< Num(1), Num(2) >>) }
LeafValues == NumberValues \cup ArrayValues
NestedObjects == { Obj(EmptyObj) } \cup { Obj([x \in {"b"} |-> leaf]) : leaf \in LeafValues }
FieldValues == LeafValues \cup NestedObjects
PartialObjects ==
  { Obj(EmptyObj) }
  \cup { Obj([x \in {"a"} |-> fv]) : fv \in FieldValues }
  \cup { Obj([x \in {"k"} |-> fv]) : fv \in FieldValues }
  \cup { Obj([x \in {"a", "k"} |-> IF x = "a" THEN fa ELSE fk]) :
            fa \in FieldValues, fk \in NumberValues }

\* One call deepMerge(target, source) of the object accumulator.
deepMergeCall ==
  /\ ret = None
  /\ call # None
  /\ call[1].fn = "deepMerge"
  /\ ret' = Some(deepMerge(call[1].target, call[1].source))
  /\ UNCHANGED call
  /\ UNCHANGED nonPureVars

NextMerge == deepMergeCall

InitMerge ==
  /\ OnlyPure
  /\ \E target \in PartialObjects, update \in PartialObjects :
       call = Some([fn |-> "deepMerge", target |-> target, source |-> update])
  /\ ret = None

SpecMerge == InitMerge /\ [][NextMerge]_vars

\* Chunks of a text stream (the empty string among them) and of a stream of
\* partial objects.
TextChunks == { Str(<< >>), Str(<< "x" >>), Str(<< "y" >>) }
ObjectChunks ==
  { Obj([x \in {"a"} |-> Num(1)]),
    Obj([x \in {"k"} |-> Num(2)]),
    Obj([x \in {"a"} |-> Obj([y \in {"b"} |-> Num(1)])]),
    Obj([x \in {"a"} |-> Obj(EmptyObj)]) }

\* prev + chunk on strings
concat(prev, chunk) == Str(prev.items \o chunk.items)

\* detectAccumulator(chunk): the accumulator it assigns.
detectedAccumulator(chunk) ==
  CASE chunk.kind = "string" -> "textAccumulator"
    [] isObjectType(chunk) -> "objectAccumulator"
    [] OTHER -> "fallback"

\* detectAccumulator(chunk): the value it leaves in `accumulated`.
detectedAccumulated(prev, chunk) ==
  CASE chunk.kind = "string" -> Str(<< >>)
    [] isObjectType(chunk) -> Null
    [] OTHER -> prev

\* accumulator(prev, chunk) for the function the closure holds.
applyAccumulator(acc, prev, chunk) ==
  CASE acc = "textAccumulator" -> IF truthy(prev) THEN concat(prev, chunk) ELSE chunk
    [] acc = "objectAccumulator" -> IF ~truthy(prev) THEN chunk ELSE deepMerge(prev, chunk)
    [] OTHER -> chunk

\* accumulator === detectAccumulator: `accumulator` is never assigned
\* detectAccumulator, it starts as an arrow function of its own.
needsDetection(acc) == acc = "detectAccumulator"

accRest ==
  << traceVars, streamVars, genVars, mgrVars, trimVars, tokVars, progVars,
     regVars >>

\* transform(chunk, controller) of the TransformStream, for the next chunk
\* of a stream of one kind.
transform ==
  /\ Len(enqueued) < MaxWrites
  /\ \E chunk \in TextChunks \cup ObjectChunks :
       /\ enqueued # << >> => chunk.kind = enqueued[1].kind
       /\ LET detect == needsDetection(accumulator)
              acc1 == IF detect THEN detectedAccumulator(chunk) ELSE accumulator
              prev1 == IF detect THEN detectedAccumulated(accumulated, chunk)
                       ELSE accumulated
          IN /\ accumulator' = acc1
             /\ accumulated' = applyAccumulator(acc1, prev1, chunk)
             /\ enqueued' = Append(enqueued, chunk)
  /\ ret' = None
  /\ UNCHANGED call
  /\ UNCHANGED accRest

\* getAccumulated()
getAccumulated ==
  /\ ret' = Some(accumulated)
  /\ UNCHANGED call
  /\ UNCHANGED accVars
  /\ UNCHANGED accRest

NextAccumulate == transform \/ getAccumulated

InitAccumulate ==
  /\ scope = NoScope
  /\ InitTrace
  /\ StreamIdle
  /\ LaterIdle

SpecAccumulate == InitAccumulate /\ [][NextAccumulate]_vars

\* ------------------------------------------------------------------------
\* Part X: the TraceManager of src/trace/manager.ts (267-323): its registry
\* of traces and shutdown.
\* ------------------------------------------------------------------------
regRest ==
  << traceVars, streamVars, genVars, mgrVars, trimVars, pureVars, tokVars,
     accVars, progVars >>

\* new Trace(...) as createTrace registers it.
NewTrace == [ended |-> FALSE, flushed |-> FALSE]

\* trace.end(info) run to its end: a trace without an end time gets one and
\* its flush callback is invoked; an ended trace is left alone.
TraceEndedBy(t) == IF t.ended THEN t ELSE [ended |-> TRUE, flushed |-> TRUE]

\* TraceManager.createTrace(options)
createTrace ==
  /\ Len(tmTraces) < MaxTraces
  /\ tmTraces' = Append(tmTraces, NewTrace)
  /\ tmRegistry' = tmRegistry \cup {Len(tmTraces) + 1}
  /\ UNCHANGED tmShutdown
  /\ UNCHANGED regRest

\* A holder of a trace ends it: trace.end(info), awaited.
traceEnd ==
  /\ \E id \in DOMAIN tmTraces :
       /\ ~tmTraces[id].ended
       /\ tmTraces' = [tmTraces EXCEPT ![id] = TraceEndedBy(@)]
  /\ UNCHANGED << tmRegistry, tmShutdown >>
  /\ UNCHANGED regRest

\* getActiveTraces(), in the insertion order of the map.
RECURSIVE activeFrom(_, _, _)
activeFrom(ts, registry, id) ==
  IF id > Len(ts) THEN << >>
  ELSE (IF id \in registry /\ ~ts[id].ended THEN << id >> ELSE << >>)
         \o activeFrom(ts, registry, id + 1)

getActiveTraces == activeFrom(tmTraces, tmRegistry, 1)

\* shutdown() up to its first await: the snapshot of the active traces is
\* taken and end is called on the first of them; with no active trace the
\* loop is skipped and this.traces.clear() runs at once.
shutdownBegin ==
  /\ tmShutdown.pc # "looping"
  /\ IF getActiveTraces = << >>
       THEN /\ tmRegistry' = {}
            /\ tmShutdown' = [pc |-> "done", todo |-> << >>]
       ELSE /\ tmShutdown' = [pc |-> "looping", todo |-> getActiveTraces]
            /\ UNCHANGED tmRegistry
  /\ UNCHANGED tmTraces
  /\ UNCHANGED regRest

\* shutdown() resumed after `await trace.end(...)`: the awaited trace is
\* ended; the loop goes on to the next trace of the snapshot or, after the
\* last one, this.traces.clear() empties the registry.
shutdownResume ==
  /\ tmShutdown.pc = "looping"
  /\ tmTraces' = [tmTraces EXCEPT ![Head(tmShutdown.todo)] = TraceEndedBy(@)]
  /\ IF Tail(tmShutdown.todo) = << >>
       THEN /\ tmRegistry' = {}
            /\ tmShutdown' = [pc |-> "done", todo |-> << >>]
       ELSE /\ tmShutdown' = [tmShutdown EXCEPT !.todo = Tail(@)]
            /\ UNCHANGED tmRegistry
  /\ UNCHANGED regRest

NextRegistry == createTrace \/ traceEnd \/ shutdownBegin \/ shutdownResume

InitRegistry ==
  /\ scope = NoScope
  /\ InitTrace
  /\ StreamIdle
  /\ LaterIdle

SpecRegistry == InitRegistry /\ [][NextRegistry]_vars

\* ------------------------------------------------------------------ claims
RECURSIVE SumCompleted(_, _)
\* Sum of usage.totalTokens over the generations among the first n children
\* that complete(result) ended (their metadata carries the usage it recorded).
SumCompleted(ss, n) ==
  IF n = 0 THEN 0
  ELSE SumCompleted(ss, n - 1)
       + (IF /\ ss[n].kind = "generation"
             /\ "usage" \in DOMAIN ss[n].metadata
             /\ ss[n].metadata["usage"] # None
            THEN ss[n].metadata["usage"][1].totalTokens
            ELSE 0)

\* metadata.totalTokens, 0 while the key is absent.
RecordedTotal ==
  IF "totalTokens" \in DOMAIN metadata THEN metadata["totalTokens"] ELSE 0

\* Sum of totalTokens over metadata.tokenUsageSummary, 0 while absent.
SummaryTotal ==
  IF "tokenUsageSummary" \in DOMAIN metadata
    THEN getTotalUsage(tokenUsageSummary(metadata, modelTotals))
    ELSE 0

EndReturned == \E c \in DOMAIN endPc : endPc[c] = "done"

\* C1: once Trace.end has completed, the trace's recorded token total
\* (metadata.totalTokens, and the sum over metadata.tokenUsageSummary) equals
\* the sum of usage.totalTokens over the generations completed under it.
C1_RecordedTotalIsSumOfCompleted ==
  EndReturned =>
    /\ RecordedTotal = SumCompleted(spans, Len(spans))
    /\ SummaryTotal = SumCompleted(spans, Len(spans))

\* C2: startSpan and startGeneration on a trace whose end time is set throw,
\* and the failed call leaves the span set, status, endTime and metadata as
\* they were.
C2_StartOnEndedTraceFails ==
  [][ (endTime # 0 /\ (startSpan \/ startGeneration)) =>
        /\ threw'
        /\ spans' = spans
        /\ status' = status
        /\ endTime' = endTime
        /\ metadata' = metadata ]_vars

C2_Witness == endTime # 0 /\ threw /\ Len(spans) > 0

\* C3: the step of Trace.end that passes the guard turns every child without
\* an end time into a 'cancelled' child with an end time and the reason
\* 'trace_ended', leaves the other children as they are, and does not yet set
\* the trace's endTime/status or invoke the flush callback; endTime is set, and
\* the callback invoked, only by a call that has made that step.
C3_CascadeBeforeFinalize ==
  [][ /\ (\E c \in DOMAIN endPc : endPc[c] = "idle" /\ endPc'[c] = "closed") =>
          /\ \A i \in 1..Len(spans) :
               IF spans[i].endTime = 0
                 THEN /\ spans'[i].status = "cancelled"
                      /\ spans'[i].endTime # 0
                      /\ spans'[i].metadata["reason"] = "trace_ended"
                 ELSE spans'[i] = spans[i]
          /\ Len(spans') = Len(spans)
          /\ endTime' = endTime /\ endTime = 0
          /\ status' = status
          /\ flushCount' = flushCount
      /\ (endTime' # endTime \/ flushCount' # flushCount) =>
          \E c \in DOMAIN endPc : endPc[c] = "closed" /\ endPc'[c] = "flushing"
      /\ (\E c \in DOMAIN endPc : endPc[c] = "idle" /\ endPc'[c] # "idle") =>
          (endTime = 0 <=> \E c \in DOMAIN endPc :
                             endPc[c] = "idle" /\ endPc'[c] = "closed")
    ]_vars

\* A cascade has cancelled one child and kept an already-ended one, and the
\* trace is not finalized yet.
C3_Witness ==
  /\ endTime = 0 /\ flushCount = 0
  /\ \E c \in DOMAIN endPc : endPc[c] = "closed"
  /\ \E i, j \in 1..Len(spans) :
       /\ spans[i].status = "cancelled"
       /\ spans[i].metadata["endTime"] = spans[i].endTime
       /\ spans[j].status = "error"
       /\ spans[j].endTime # 0

\* C4: once a span has an end time, no later end call (by a caller, by
\* complete, by the trace's cascade) changes its endTime, status or metadata,
\* the recorded output included.
C4_SpanEndIdempotent ==
  [][ \A i \in 1..Len(spans) :
        spans[i].endTime # 0 =>
          /\ spans'[i].endTime = spans[i].endTime
          /\ spans'[i].status = spans[i].status
          /\ spans'[i].metadata = spans[i].metadata ]_vars

\* A later end call arrived, at a later instant, at a span that had recorded
\* an output.
C4_Witness ==
  /\ endIgnored
  /\ \E i \in 1..Len(spans) :
       /\ spans[i].endTime # 0
       /\ spans[i].endTime < now
       /\ "output" \in DOMAIN spans[i].metadata

\* C5: a Trace.end call made after an earlier end call has returned stops at the
\* guard: the trace's endTime, status, metadata and children are unchanged and
\* the flush callback is not invoked; so while the calls are sequential (every
\* later call started after the trace was ended) the callback has run exactly
\* once.
C5_SecondEndIsNoOp ==
  /\ [][ \A c \in DOMAIN endPc :
           (EndReturned /\ endPc[c] = "idle" /\ endPc'[c] # "idle") =>
             /\ endPc'[c] = "ignored"
             /\ endTime' = endTime
             /\ status' = status
             /\ metadata' = metadata
             /\ spans' = spans
             /\ flushCount' = flushCount ]_vars
  /\ []( (/\ endPc[1] = "done"
          /\ \A c \in DOMAIN endPc : c > 1 => endPc[c] \in {"idle", "ignored"})
           => flushCount = 1 )

\* The first call has returned and a second one was ignored.
C5_Witness ==
  /\ endPc[1] = "done"
  /\ \E c \in DOMAIN endPc : c > 1 /\ endPc[c] = "ignored"
  /\ flushCount = 1
  /\ status \in EndStatuses

\* C6: the status only moves pending -> running (at a child start) and to
\* completed/failed (at end); once the end time is set the status is
\* completed or failed and no later step of any operation changes it.
C6_StatusTerminalAfterEnd ==
  [][ /\ status' # status =>
           \/ status = "pending" /\ status' = "running"
                /\ Len(spans') = Len(spans) + 1
           \/ status' \in EndStatuses /\ flushCount' = flushCount + 1
      /\ endTime # 0 => (status \in EndStatuses /\ status' = status) ]_vars

\* C7: whenever the consumer of the returned stream has met the stream's end,
\* it has read exactly the source's chunks, in order, and the end it met is the
\* source's: completion if the source completed, the source's error if it
\* errored.
C7_ConsumerSeesSourceSequence ==
  consumerEnd \in {"done", "srcError", "instrError"} =>
    /\ consumed = source
    /\ consumerEnd = IF srcEnd = "complete" THEN "done" ELSE "srcError"

\* C8: the stream handed to the consumer never carries an error raised by the
\* instrumentation (the token count on a chunk, the monitor reader), and the
\* consumer never meets one.
C8_InstrumentationErrorHidden ==
  outErr # "instrumentation" /\ consumerEnd # "instrError"

\* C9: once a stream whose wrapper had started a generation and returned has
\* errored and the handlers of result.text / result.object have run, exactly
\* one endGeneration call has been issued, with status 'error' and the
\* prompt-only usage.
C9_MidStreamErrorEndsGeneration ==
  (wpc = "returned" /\ generation /\ srcOver /\ srcEnd = "error"
     /\ textState # "pending")
    => endGenCalls = << [status |-> "error", usage |-> PromptOnlyUsage] >>

\* C10: once the source is over or the consumer has cancelled the returned
\* stream, the monitoring interval is not active, and no step issues a further
\* progress snapshot.
C10_TimerCancelledWithStream ==
  /\ []((srcOver \/ consumerEnd = "cancelled") => ~timerActive)
  /\ [][(srcOver \/ consumerEnd = "cancelled") =>
          progressCalls' = progressCalls]_vars

\* C11: when the model invocation of a generate wrapper has failed, the caller
\* got the model's error (also when the telemetry close threw), and a wrapper
\* that held a generation has issued exactly one endGeneration call, with
\* status 'error' and the prompt-only usage; a wrapper that held none issued
\* no call.
C11_ModelErrorPropagated ==
  gModel = "threw" =>
    /\ gOutcome = "modelError"
    /\ gCalls = IF gGeneration
                  THEN << [status |-> "error", usage |-> GenPromptOnlyUsage] >>
                  ELSE << >>

\* The model failed under a started generation and the telemetry close threw.
C11_Witness ==
  /\ gModel = "threw" /\ gGeneration /\ gLogged > 0
  /\ Len(gCalls) = 1 /\ gCalls[1].usage.promptTokens = 2

\* C12: whenever a generate wrapper call is over, the model was invoked and the
\* caller got the model's result or the model's error, whatever telemetry
\* step failed.
C12_TelemetryNeverMasks ==
  gpc \in {"returned", "threw"} =>
    /\ gModel \in {"returned", "threw"}
    /\ gOutcome = IF gModel = "returned" THEN "result" ELSE "modelError"


\* The entries of a backend log that name generation id.
EntriesFor(log, id) == { i \in DOMAIN log : log[i].id = id }
IncrementsFor(id) ==
  { i \in DOMAIN backend.traceIncrements :
      backend.traceIncrements[i].generationId = id }

\* C13: endGeneration is idempotent per generation id: a generation that
\* startGeneration registered receives at most one backend generation update
\* and at most one token increment on its trace, however often endGeneration
\* or finishTrace is called for it.
C13_EndGenerationIdempotent ==
  \A id \in backend.generations :
    /\ Cardinality(EntriesFor(backend.generationUpdates, id)) <= 1
    /\ Cardinality(IncrementsFor(id)) <= 1


\* The token increments the trace of manager m received for its generations.
RECURSIVE SumIncrements(_, _)
SumIncrements(log, m) ==
  IF log = << >> THEN 0
  ELSE (IF handles[log[1].generationId].mgr = m
          THEN log[1].totalTokensIncrement ELSE 0)
         + SumIncrements(Tail(log), m)

\* The totalTokens of the generations of manager m that were ended, each
\* taken once, with the usage of the call that ended it.
RECURSIVE SumEnded(_, _)
SumEnded(ids, m) ==
  IF ids = {} THEN 0
  ELSE LET id == FirstId(ids)
           ends == EntriesFor(backend.generationUpdates, id)
       IN (IF handles[id].mgr = m /\ ends # {}
             THEN backend.generationUpdates[FirstId(ends)].usage.totalTokens
             ELSE 0)
            + SumEnded(ids \ {id}, m)

\* C14: with telemetry enabled and the root trace created, the token
\* increments sent to the trace add up to the totalTokens of the generations
\* ended, each counted once (a generation force-closed by finishTrace
\* counts 0).
C14_IncrementsMatchEndedGenerations ==
  \A m \in DOMAIN managers :
    on /\ managers[m].traceClient =>
      SumIncrements(backend.traceIncrements, m) = SumEnded(DOMAIN handles, m)


\* The finishTrace calls made on one manager, returned or not.
callsOn(M) == M.finished + (IF M.fpc = "flushing" THEN 1 ELSE 0)

\* C15: a finishTrace call on a manager whose finishTrace has completed
\* before is a no-op: no further trace update, no further flush, the
\* registries unchanged.
C15_SecondFinishIsNoOp ==
  [][\A m \in DOMAIN managers :
       (managers[m].finished >= 1 /\ callsOn(managers'[m]) > callsOn(managers[m]))
         => /\ backend' = backend
            /\ activeTraces' = activeTraces
            /\ modSpans' = modSpans
            /\ modGenerations' = modGenerations]_vars


\* An update that marks its observation cancelled.
MarkedCancelled(update) ==
  "status" \in DOMAIN update.metadata /\ update.metadata["status"] = "cancelled"

\* The entries a step appends to a backend log.
Appended(old, new) == { new[i] : i \in (Len(old) + 1)..Len(new) }

\* C16: a finishTrace call empties the active registries of its manager,
\* every span and generation it closes is updated with status 'cancelled',
\* and those updates precede the trace update and the flush.
C16_FinishCancelsOpenChildren ==
  [][\A m \in DOMAIN managers :
       callsOn(managers'[m]) > callsOn(managers[m])
         => /\ managers'[m].spanClients = {}
            /\ managers'[m].spanStubs = {}
            /\ managers'[m].activeGenerations = {}
            /\ \A u \in Appended(backend.spanUpdates, backend'.spanUpdates) :
                 MarkedCancelled(u)
            /\ \A u \in Appended(backend.generationUpdates,
                                 backend'.generationUpdates) :
                 MarkedCancelled(u)
            /\ \A f \in Appended(backend.traceFinishes,
                                 backend'.traceFinishes) :
                 /\ f.closedSpans = Len(backend'.spanUpdates)
                 /\ f.closedGenerations = Len(backend'.generationUpdates)]_vars


\* The ids manager M holds in its active registries.
Registered(M) == M.spanClients \cup M.spanStubs \cup M.activeGenerations

\* C17: once finishTrace has completed on a manager, startSpan and
\* startGeneration on it fail: no id is handed out and nothing is added to
\* its registries.
C17_StartAfterFinishFails ==
  [][\A m \in DOMAIN managers :
       managers[m].finished >= 1
         => /\ ~(/\ Len(handles') > Len(handles)
                 /\ handles'[Len(handles')].mgr = m)
            /\ Registered(managers'[m]) \subseteq Registered(managers[m])]_vars


\* C18: with telemetry disabled nothing reaches the backend and nothing is
\* flushed, and every id startSpan or startGeneration handed out stays in
\* the active registry of its manager until endSpan, endGeneration or
\* finishTrace removes it.
C18_DisabledTracksLocally ==
  ~on =>
    /\ backend = NoBackend
    /\ \A id \in DOMAIN handles :
         handles[id].open => id \in Registered(managers[handles[id].mgr])


\* The root trace records the backend holds for trace id.
RootRecords(be, id) ==
  { i \in DOMAIN be.traces : be.traces[i].id = id /\ be.traces[i].root }

\* C19: a TraceManager constructed on the id of a known open trace reuses
\* it: the registry of traces is unchanged, the backend gets no further root
\* trace record for the id, and a warning is logged.
C19_ExistingTraceReusedWithWarning ==
  [][(/\ Len(managers') > Len(managers)
      /\ managers'[Len(managers')].traceId \in activeTraces)
       => /\ activeTraces' = activeTraces
          /\ RootRecords(backend', managers'[Len(managers')].traceId)
               = RootRecords(backend, managers'[Len(managers')].traceId)
          /\ warnings' = warnings + 1]_vars


\* The floor-length slice of the prompt and its token count.
floorSlice == sliceLength(tIn.len, MIN_CHUNK_SIZE)
floorTokens == countPrefixTokens(floorSlice, tIn.width)
returnedTokens == countPrefixTokens(tOut[1], tIn.width)

C21_TrimPromptTerminates ==
  /\ [](\A i \in 1..(Len(tStack) - 1) : tStack[i + 1] < tStack[i])
  /\ [][(/\ tOut = None
         /\ tStack # << >>
         /\ \/ countPrefixTokens(currentPrompt, tIn.width) <= tBudget
            \/ chunkSizeFor(currentPrompt,
                            countPrefixTokens(currentPrompt, tIn.width)
                              - tBudget) < MIN_CHUNK_SIZE)
          => tOut' # None]_vars
  /\ (tStack # << >> ~> tOut # None)

\* A call that recursed at least twice, once on a hard cut, and returned.
C21_Witness ==
  /\ tOut # None
  /\ Len(tStack) >= 3
  /\ \E i \in 1..(Len(tStack) - 1) :
       tStack[i + 1] \notin SplitterChunks(tStack[i], tIn.bounds)


\* The keywords by which a family is recognised.
Keywords(family) ==
  IF family = "cohere" THEN {"cohere", "command"} ELSE {family}

\* The pieces that spell a keyword, in any case.
Spellings(keyword) ==
  CASE keyword = "gpt" -> {"gpt", "GPT"}
    [] keyword = "claude" -> {"claude", "Claude"}
    [] keyword = "llama" -> {"llama", "LLaMA"}
    [] keyword = "gemini" -> {"gemini", "Gemini"}
    [] keyword = "command" -> {"command", "Command"}
    [] OTHER -> {keyword}

\* The model name holds a keyword of the family, whatever the case.
Mentions(modelName, family) ==
  \E i \in DOMAIN modelName, k \in Keywords(family) :
    modelName[i] \in Spellings(k)

\* The order in which the families are tried.
FamilyOrder == << "gpt", "claude", "llama", "mistral", "gemini", "cohere" >>

\* C22 (as stated): a model name containing the keyword of a family maps to
\* that family, and a name containing no keyword maps to GPT.
C22_KeywordMapsToItsFamily ==
  ret # None =>
    /\ \A family \in ModelFamily :
         Mentions(call[1].modelName, family) => ret[1] = family
    /\ (\A family \in ModelFamily : ~Mentions(call[1].modelName, family))
         => ret[1] = "gpt"

\* C22 (amended): a model name maps to the first family, in the order GPT,
\* CLAUDE, LLAMA, MISTRAL, GEMINI, COHERE, of which it contains a keyword,
\* and a name containing no keyword maps to GPT.
C22_FirstKeywordInOrderWins ==
  ret # None =>
    /\ \A i \in DOMAIN FamilyOrder :
         (/\ Mentions(call[1].modelName, FamilyOrder[i])
          /\ \A j \in 1..(i - 1) : ~Mentions(call[1].modelName, FamilyOrder[j]))
           => ret[1] = FamilyOrder[i]
    /\ (\A family \in ModelFamily : ~Mentions(call[1].modelName, family))
         => ret[1] = "gpt"

\* A name with the keywords of two families, in mixed case, the later family
\* first in the name.
C22_Witness ==
  /\ ret = Some("claude")
  /\ call[1].modelName = << "Gemini", "Claude" >>


\* The calls of the log that needed an encoder of the scheme.
UsesOf(scheme) ==
  { i \in DOMAIN tokLog :
      tokLog[i].text # << >> /\ encodingMap(tokLog[i].family) = scheme }

\* C23: between two clearEncoderCache calls, getEncoding is called for a
\* scheme in the first countTokens call that needs it and in no other, the
\* scheme has a cached encoder exactly from then on, and a call with the
\* empty text returns 0 and creates nothing.
C23_EncoderCreatedOncePerScheme ==
  /\ \A i \in DOMAIN tokLog :
       tokLog[i].getEncoding <=>
         /\ i \in UsesOf(encodingMap(tokLog[i].family))
         /\ \A j \in UsesOf(encodingMap(tokLog[i].family)) : i <= j
  /\ \A i \in DOMAIN tokLog :
       tokLog[i].text = << >> =>
         tokLog[i].outcome = "returned" /\ tokLog[i].tokens = 0
  /\ encoderCache = { encodingMap(tokLog[i].family) : i \in UsesOf("cl100k_base") }

\* Two families counted one after the other, the second on the encoder the
\* first created, after a call with the empty text that created none.
C23_Witness ==
  /\ Len(tokLog) = 3
  /\ tokLog[1].text = << >> /\ ~tokLog[1].getEncoding
  /\ tokLog[2].family = "claude" /\ tokLog[2].getEncoding
  /\ tokLog[3].family = "gemini" /\ ~tokLog[3].getEncoding
  /\ tokLog[3].tokens = 2


\* C24: once a generation has an end time, by complete, by end or by the
\* cascading close of its trace, no later call changes its output, usage,
\* status, end time or metadata.
C24_GenerationSetOnce ==
  [][\A i \in DOMAIN spans :
       (spans[i].kind = "generation" /\ spans[i].endTime # 0)
         => /\ spans'[i].output = spans[i].output
            /\ spans'[i].usage = spans[i].usage
            /\ spans'[i].status = spans[i].status
            /\ spans'[i].endTime = spans[i].endTime
            /\ spans'[i].metadata = spans[i].metadata]_vars


\* C25: when the flush callback rejects, no Trace.end call fails, a call that
\* returned leaves the trace with its end time, a final status and the token
\* summary, and an end call made on the ended trace is ignored.
C25_FlushRejectionContained ==
  /\ [](scope.flushRejects =>
          \A c \in DOMAIN endPc :
            /\ endPc[c] # "rejected"
            /\ endPc[c] = "done" =>
                 /\ endTime # 0
                 /\ status \in EndStatuses
                 /\ "tokenUsageSummary" \in DOMAIN metadata)
  /\ [][\A c \in DOMAIN endPc :
          (/\ scope.flushRejects
           /\ endTime # 0
           /\ endPc[c] = "idle"
           /\ endPc'[c] # "idle")
            => /\ endPc'[c] = "ignored"
               /\ UNCHANGED << status, endTime, metadata, spans, flushCount >>]_vars

\* The flush rejected, the first end call returned and a later one was
\* ignored.
C25_Witness ==
  /\ scope.flushRejects
  /\ endPc[1] = "done"
  /\ endPc[2] = "ignored"
  /\ flushCount = 1

RECURSIVE SumHistory(_)
\* The sum of totalTokens over a sequence of usage records.
SumHistory(h) ==
  IF h = << >> THEN 0 ELSE h[1].totalTokens + SumHistory(Tail(h))

\* C26: Trace.updateMetadata merges keys last-write-wins; an update carrying
\* tokenUsage appends one record to the usage history, keeping the earlier
\* records, and afterwards metadata.totalTokens equals the sum of totalTokens
\* over all usage records added so far.
C26_TokenUsageAppends ==
  [][ Len(usageHistory') > Len(usageHistory) =>
        /\ Len(usageHistory') = Len(usageHistory) + 1
        /\ SubSeq(usageHistory', 1, Len(usageHistory)) = usageHistory
        /\ "totalTokens" \in DOMAIN metadata'
        /\ metadata'["totalTokens"] = SumHistory(usageHistory') ]_vars

\* The records of a history that count under model m.
RecordsOf(h, m) ==
  { i \in 1..Len(h) : (IF h[i].model = "" THEN "unknown" ELSE h[i].model) = m }

RECURSIVE FieldSum(_, _, _)
\* The sum of one field over the records of h at the positions S.
FieldSum(h, S, field) ==
  IF S = {} THEN 0
  ELSE LET i == CHOOSE x \in S : TRUE
       IN h[i][field] + FieldSum(h, S \ {i}, field)

UsageFields == {"promptTokens", "completionTokens", "totalTokens"}

\* C27: after any sequence of addUsage calls the history lists the records
\* in call order, every per-model total is the field-wise sum of the records
\* of that model (records without a model count under 'unknown'),
\* getTotalUsage returns the field-wise sum over all records, and reset
\* returns the tracker to the empty state.
C27_TrackerTotals ==
  /\ [](/\ DOMAIN modelTotals =
            { m \in {"m1", "m2", "unknown", ""} : RecordsOf(usageHistory, m) # {} }
        /\ \A m \in DOMAIN modelTotals : \A f \in UsageFields :
             modelTotals[m][f] = FieldSum(usageHistory, RecordsOf(usageHistory, m), f))
  /\ [][ call' # None /\
         (call'[1].fn = "addUsage" =>
            usageHistory' = Append(usageHistory, call'[1].usage)) /\
         (call'[1].fn = "getHistory" => ret' = Some(usageHistory)) /\
         (call'[1].fn = "getModelTotals" => ret' = Some(modelTotals)) /\
         (call'[1].fn = "getTotalUsage" =>
            \A f \in UsageFields :
              ret'[1][f] = FieldSum(usageHistory, 1..Len(usageHistory), f)) /\
         (call'[1].fn = "reset" =>
            usageHistory' = << >> /\ modelTotals' = EmptyObj) ]_vars

\* Two records without a model were added and the total was read.
C27_Witness ==
  /\ Len(usageHistory) = 2
  /\ \A i \in 1..2 : usageHistory[i].model = ""
  /\ call = Some([fn |-> "getTotalUsage"])
  /\ ret # None
  /\ ret[1].totalTokens = 14

RECURSIVE MergedAsStated(_, _)
\* The merge as stated: a key of both takes the update's value unless both
\* values are plain objects, which are merged in the same way; keys of one
\* side only are kept.
MergedAsStated(target, update) ==
  Obj([key \in DOMAIN target.fields \cup DOMAIN update.fields |->
         IF key \notin DOMAIN update.fields THEN target.fields[key]
         ELSE IF key \notin DOMAIN target.fields THEN update.fields[key]
         ELSE IF target.fields[key].kind = "object" /\ update.fields[key].kind = "object"
           THEN MergedAsStated(target.fields[key], update.fields[key])
           ELSE update.fields[key]])

\* C28: the deep merge of a partial object into the accumulator replaces a
\* key present in both by the update's value unless both values are plain
\* objects, in which case it recurses; scalars and arrays in the update
\* replace the target's value wholesale; keys only in the target are kept.
C28_DeepMergeAsStated ==
  (call # None /\ call[1].fn = "deepMerge" /\ ret # None) =>
     ret[1] = MergedAsStated(call[1].target, call[1].source)

RECURSIVE AllConcatenated(_)
\* The concatenation of a sequence of text chunks.
AllConcatenated(chunks) ==
  IF chunks = << >> THEN << >>
  ELSE chunks[1].items \o AllConcatenated(Tail(chunks))

RECURSIVE AllMerged(_)
\* The deep merge of a non-empty sequence of partial objects, in order.
AllMerged(chunks) ==
  IF Len(chunks) = 1 THEN chunks[1]
  ELSE deepMerge(AllMerged(SubSeq(chunks, 1, Len(chunks) - 1)), chunks[Len(chunks)])

\* C29: for a stream of text chunks getAccumulated() returns the
\* concatenation of all chunks seen so far, for a stream of partial objects
\* the deep merge of all partial objects seen so far.
C29_AccumulatesWholeStream ==
  [][ (ret' # None /\ enqueued # << >>) =>
        IF enqueued[1].kind = "string"
          THEN ret'[1].items = AllConcatenated(enqueued)
          ELSE ret'[1] = AllMerged(enqueued) ]_vars

\* recordStreamingProgress's default updateInterval: the minimum interval
\* between two progress reports, in ms.
updateInterval == 500

\* C30: two consecutive progress reports of one stream are never closer
\* together than the minimum report interval, however fast ticks arrive.
C30_ReportsAtLeastIntervalApart ==
  \A i \in 2..Len(reportTimes) :
    reportTimes[i] - reportTimes[i - 1] >= updateInterval

\* C31: after endSpan(id) or endGeneration(id) has returned for an id its
\* manager started, the id is in neither the manager's own registry nor the
\* module-wide one, whether the backend update went through, the backend
\* threw, or telemetry is disabled.
C31_EndedIdLeavesRegistries ==
  \A id \in DOMAIN handles :
    ~handles[id].open =>
      /\ id \notin Registered(managers[handles[id].mgr])
      /\ id \notin modSpans \cup modGenerations

\* With telemetry enabled a span and a generation that the backend holds
\* have both been ended.
C31_Witness ==
  /\ on
  /\ \E i, j \in DOMAIN handles :
       /\ handles[i].kind = "span" /\ handles[j].kind = "generation"
       /\ i \in backend.spans /\ j \in backend.generations
       /\ ~handles[i].open /\ ~handles[j].open

\* C32: every usage record a streaming wrapper passes to endGeneration has
\* totalTokens = promptTokens + completionTokens, with promptTokens the count
\* taken before the model call, completionTokens on success the count of the
\* complete final text, and completionTokens 0 on an error path.
C32_WrapperUsageAddsUp ==
  \A i \in DOMAIN endGenCalls :
    LET usage == endGenCalls[i].usage
    IN /\ usage.totalTokens = usage.promptTokens + usage.completionTokens
       /\ usage.promptTokens = Len(promptText)
       /\ endGenCalls[i].status = "success" =>
            srcOver /\ usage.completionTokens = Len(source)
       /\ endGenCalls[i].status = "error" => usage.completionTokens = 0

\* A stream of two chunks completed and its success record was passed on.
C32_Witness ==
  /\ Len(source) = 2
  /\ \E i \in DOMAIN endGenCalls :
       /\ endGenCalls[i].status = "success"
       /\ endGenCalls[i].usage.totalTokens = 4

\* C33: under every interleaving of Trace.end calls started before any of
\* them has finished, the flush callback is invoked at most once and a single
\* call sets the end time, the status and the final metadata.
C33_ConcurrentEndsFinalizeOnce ==
  /\ flushCount <= 1
  /\ Cardinality({ c \in DOMAIN endPc : endPc[c] \in {"flushing", "done"} }) <= 1

\* C34: under every interleaving of startSpan/startGeneration with a
\* Trace.end in progress, once end has set the end time every child of the
\* trace has an end time: none is left running inside an ended trace.
C34_NoOpenChildInEndedTrace ==
  endTime # 0 => \A i \in 1..Len(spans) : spans[i].endTime # 0

\* Manager m has returned from a finishTrace that updated and flushed its
\* trace.
Flushed(m) ==
  /\ managers[m].finished > 0
  /\ managers[m].fpc = "idle"
  /\ \E i \in DOMAIN backend.traceFinishes :
       backend.traceFinishes[i].trace = managers[m].traceId

\* C35: under every interleaving of finishTrace with the completion callback
\* of a streaming wrapper, no generation update and no token-usage increment
\* of the trace is issued for a manager after its finishTrace has flushed
\* the trace.
C35_NothingSentAfterFlush ==
  [][ \A m \in DOMAIN managers :
        Flushed(m) =>
          /\ \A i \in DOMAIN backend'.generationUpdates :
               i > Len(backend.generationUpdates) =>
                 handles[backend'.generationUpdates[i].id].mgr # m
          /\ \A i \in DOMAIN backend'.traceIncrements :
               i > Len(backend.traceIncrements) =>
                 handles[backend'.traceIncrements[i].generationId].mgr # m ]_vars

\* C36: under every interleaving of createTrace with a shutdown in progress,
\* every trace that shutdown removes from the registry has been ended: it
\* has an end time and its flush was attempted.
C36_ShutdownDropsOnlyEndedTraces ==
  [][ \A id \in tmRegistry \ tmRegistry' :
        tmTraces'[id].ended /\ tmTraces'[id].flushed ]_vars

\* C37: a trace id is in the module-wide activeTraces registry only while
\* some TraceManager for that id is unfinished, and it stays registered as
\* long as an unfinished manager uses it.
C37_RegisteredWhileUnfinished ==
  LET unfinished(id) ==
        \E m \in DOMAIN managers :
          /\ managers[m].traceId = id
          /\ managers[m].constructed
          /\ managers[m].finished = 0
  IN \A id \in activeTraces \cup { managers[m].traceId : m \in DOMAIN managers } :
       id \in activeTraces <=> unfinished(id)

\* C39: constructing a TraceManager never throws because of a backend
\* failure: the manager is returned whether a root trace is created or an
\* existing trace id is supplied.
C39_ConstructorNeverThrows ==
  \A m \in DOMAIN managers : managers[m].constructed

\* C38: after Trace.end has completed the trace is frozen: no operation
\* changes its metadata, tags, token summary, status or end time.
C38_EndedTraceIsFrozen ==
  [][ (\E c \in DOMAIN endPc : endPc[c] = "done") =>
        /\ metadata' = metadata
        /\ tags' = tags
        /\ modelTotals' = modelTotals
        /\ status' = status
        /\ endTime' = endTime ]_vars

=============================================================================
